---------------------------- MODULE Spec2Model ----------------------------
(***************************************************************************)
(* A model of mini-redis: the shared database with its expiration reaper   *)
(* (src/src/db.rs), the command objects (src/src/cmd/*.rs), the            *)
(* per-connection handler with its subscribed sub-state                    *)
(* (src/src/server.rs, src/src/cmd/subscribe.rs) and the listener with its *)
(* admission control and shutdown protocol (src/src/server.rs).            *)
(*                                                                         *)
(* Granularity.  Every database operation runs under the one mutex and is  *)
(* one atomic step.  What a task does between two such steps is local to   *)
(* it, but tasks run on a multi-threaded runtime, so steps of different    *)
(* tasks interleave freely: a step ends where the code unlocks the mutex,  *)
(* drops a broadcast receiver, touches the semaphore or awaits the socket. *)
(***************************************************************************)
EXTENDS Integers, Sequences, FiniteSets, TLC

(***************************************************************************)
(* Strings.  A string is a sequence of one-character strings, so that      *)
(* to_lowercase / to_uppercase are computed character by character.        *)
(***************************************************************************)
UpperAlphabet ==
    <<"A","B","C","D","E","F","G","H","I","J","K","L","M",
      "N","O","P","Q","R","S","T","U","V","W","X","Y","Z">>

LowerAlphabet ==
    <<"a","b","c","d","e","f","g","h","i","j","k","l","m",
      "n","o","p","q","r","s","t","u","v","w","x","y","z">>

LowerChar(ch) ==
    IF \E i \in 1..26 : UpperAlphabet[i] = ch
    THEN LowerAlphabet[CHOOSE i \in 1..26 : UpperAlphabet[i] = ch]
    ELSE ch

UpperChar(ch) ==
    IF \E i \in 1..26 : LowerAlphabet[i] = ch
    THEN UpperAlphabet[CHOOSE i \in 1..26 : LowerAlphabet[i] = ch]
    ELSE ch

to_lowercase(s) == [i \in DOMAIN s |-> LowerChar(s[i])]

to_uppercase(s) == [i \in DOMAIN s |-> UpperChar(s[i])]

\* The order of characters (digits before letters, upper before lower case).
CharOrd(ch) ==
    IF \E i \in 1..26 : UpperAlphabet[i] = ch
    THEN 100 + (CHOOSE i \in 1..26 : UpperAlphabet[i] = ch)
    ELSE IF \E i \in 1..26 : LowerAlphabet[i] = ch
         THEN 200 + (CHOOSE i \in 1..26 : LowerAlphabet[i] = ch)
         ELSE IF ch = "1" THEN 1 ELSE IF ch = "2" THEN 2 ELSE 0

RECURSIVE StrLess(_, _)
\* The lexicographic order of String, which orders the keys of expirations.
StrLess(a, b) ==
    IF b = <<>> THEN FALSE
    ELSE IF a = <<>> THEN TRUE
    ELSE IF CharOrd(Head(a)) # CharOrd(Head(b))
         THEN CharOrd(Head(a)) < CharOrd(Head(b))
         ELSE StrLess(Tail(a), Tail(b))

\* The literals of the code.
s_get == <<"g","e","t">>
s_set == <<"s","e","t">>
s_pub == <<"p","u","b">>
s_publish == <<"p","u","b","l","i","s","h">>
s_subscribe == <<"s","u","b","s","c","r","i","b","e">>
s_unsubscribe == <<"u","n","s","u","b","s","c","r","i","b","e">>
s_ping == <<"p","i","n","g">>
s_message == <<"m","e","s","s","a","g","e">>
s_EX == <<"E","X">>
s_PX == <<"P","X">>
s_OK == <<"O","K">>
s_PONG == <<"P","O","N","G">>

(***************************************************************************)
(* Frames (src/src/frame.rs).  Option<T> is a sequence of length 0 or 1.   *)
(***************************************************************************)
Simple(s) == [t |-> "Simple", v |-> s]
Error(s) == [t |-> "Error", v |-> s]
Integer(n) == [t |-> "Integer", v |-> n]
Bulk(b) == [t |-> "Bulk", v |-> b]
Null == [t |-> "Null", v |-> <<>>]
Array(fs) == [t |-> "Array", v |-> fs]

None == <<>>
Some(x) == <<x>>

(***************************************************************************)
(* Parse (src/src/parse.rs): a cursor over the children of an array frame. *)
(* Each operation returns [ok, eos, v, rest]: the value and the cursor     *)
(* after it, or an error that is EndOfStream (eos) or Other.               *)
(***************************************************************************)
ParseOk(v, rest) == [ok |-> TRUE, eos |-> FALSE, v |-> v, rest |-> rest]
ParseEndOfStream == [ok |-> FALSE, eos |-> TRUE, v |-> <<>>, rest |-> <<>>]
ParseOther == [ok |-> FALSE, eos |-> FALSE, v |-> <<>>, rest |-> <<>>]

next_string(parts) ==
    IF parts = <<>> THEN ParseEndOfStream
    ELSE IF Head(parts).t \in {"Simple", "Bulk"}
         THEN ParseOk(Head(parts).v, Tail(parts))
         ELSE ParseOther

next_bytes(parts) ==
    IF parts = <<>> THEN ParseEndOfStream
    ELSE IF Head(parts).t \in {"Simple", "Bulk"}
         THEN ParseOk(Head(parts).v, Tail(parts))
         ELSE ParseOther

Digits == <<"0","1","2","3","4","5","6","7","8","9">>

IsDigit(ch) == \E i \in 1..10 : Digits[i] = ch

DigitVal(ch) == (CHOOSE i \in 1..10 : Digits[i] = ch) - 1

RECURSIVE atoi(_, _)
\* atoi::<u64>: the leading decimal digits, None when there is none.
atoi(s, acc) ==
    IF s = <<>> \/ ~IsDigit(Head(s)) THEN acc
    ELSE atoi(Tail(s), Some((IF acc = None THEN 0 ELSE acc[1]) * 10 + DigitVal(Head(s))))

next_int(parts) ==
    IF parts = <<>> THEN ParseEndOfStream
    ELSE IF Head(parts).t = "Integer"
         THEN ParseOk(Head(parts).v, Tail(parts))
         ELSE IF Head(parts).t \in {"Simple", "Bulk"} /\ atoi(Head(parts).v, None) # None
              THEN ParseOk(atoi(Head(parts).v, None)[1], Tail(parts))
              ELSE ParseOther

\* A faulty Parse::finish that accepts whatever is left.
finish_any(parts) == TRUE

finish(parts) == parts = <<>>

(***************************************************************************)
(* The frame codec (src/src/frame.rs).  A byte is a one-character string;  *)
(* CR and LF are the bytes \r and \n, and XFF is the byte 0xFF, which is   *)
(* no type byte and occurs in no UTF-8 text.  A Cursor is a byte sequence  *)
(* `src` and a position `pos`, counted from 0 as in the code.  A function  *)
(* over a cursor returns [t, pos, v]: t is "ok", "incomplete"              *)
(* (Error::Incomplete), "error" (Error::Other) or "panic"; pos is the      *)
(* position it leaves the cursor at and v what it returns.                 *)
(***************************************************************************)
CR == "CR"
LF == "LF"
XFF == "XFF"

CurOk(pos, v) == [t |-> "ok", pos |-> pos, v |-> v]
Incomplete == [t |-> "incomplete", pos |-> 0, v |-> <<>>]
Other == [t |-> "error", pos |-> 0, v |-> <<>>]
Panic == [t |-> "panic", pos |-> 0, v |-> <<>>]

remaining(src, pos) == Len(src) - pos

peek_u8(src, pos) ==
    IF remaining(src, pos) <= 0 THEN Incomplete ELSE CurOk(pos, src[pos + 1])

get_u8(src, pos) ==
    IF remaining(src, pos) <= 0 THEN Incomplete ELSE CurOk(pos + 1, src[pos + 1])

\* A faulty skip that advances without looking at what remains.
skip_unchecked(src, pos, n) == CurOk(pos + n, <<>>)

skip(src, pos, n) ==
    IF remaining(src, pos) < n THEN Incomplete ELSE CurOk(pos + n, <<>>)

\* The first i in start..end-1 with src[i] = \r and src[i + 1] = \n.
get_line(src, pos) ==
    LET start == pos
        end == Len(src) - 1
        found == {i \in start..(end - 1) : src[i + 1] = CR /\ src[i + 2] = LF}
    IN  IF found = {} THEN Incomplete
        ELSE LET i == CHOOSE j \in found : \A k \in found : j <= k
             IN  CurOk(i + 2, SubSeq(src, start + 1, i))

get_decimal(src, pos) ==
    LET line == get_line(src, pos)
    IN  IF line.t # "ok" THEN line
        ELSE IF atoi(line.v, None) = None THEN Other
             ELSE CurOk(line.pos, atoi(line.v, None)[1])

\* String::from_utf8 succeeds: every byte of the model but 0xFF is ASCII.
from_utf8(line) == \A i \in DOMAIN line : line[i] # XFF

\* A faulty Frame::check that takes an unknown type byte for a frame.
check_unknown_accepted(src, pos) == CurOk(pos, <<>>)

\* Frame::check on a type byte that is none of + - : $ *.
check_unknown(src, pos) == Other

RECURSIVE check(_, _)
RECURSIVE check_children(_, _, _)
\* for _ in 0..len { Frame::check(src)?; }
check_children(src, pos, len) ==
    IF len = 0 THEN CurOk(pos, <<>>)
    ELSE LET c == check(src, pos)
         IN  IF c.t # "ok" THEN c ELSE check_children(src, c.pos, len - 1)

check(src, pos) ==
    LET b == get_u8(src, pos)
    IN  IF b.t # "ok" THEN b
        ELSE IF b.v \in {"+", "-"}
        THEN LET line == get_line(src, b.pos)
             IN  IF line.t # "ok" THEN line ELSE CurOk(line.pos, <<>>)
        ELSE IF b.v = ":"
        THEN LET d == get_decimal(src, b.pos)
             IN  IF d.t # "ok" THEN d ELSE CurOk(d.pos, <<>>)
        ELSE IF b.v = "$"
        THEN LET p == peek_u8(src, b.pos)
             IN  IF p.t # "ok" THEN p
                 ELSE IF p.v = "-" THEN skip(src, b.pos, 4)
                 ELSE LET len == get_decimal(src, b.pos)
                      IN  IF len.t # "ok" THEN len
                          ELSE skip(src, len.pos, len.v + 2)
        ELSE IF b.v = "*"
        THEN LET len == get_decimal(src, b.pos)
             IN  IF len.t # "ok" THEN len
                 ELSE check_children(src, len.pos, len.v)
        ELSE check_unknown(src, b.pos)

RECURSIVE parse(_, _)
RECURSIVE parse_children(_, _, _, _)
\* for _ in 0..len { out.push(Frame::parse(src)?); }
parse_children(src, pos, len, out) ==
    IF len = 0 THEN CurOk(pos, Array(out))
    ELSE LET c == parse(src, pos)
         IN  IF c.t # "ok" THEN c
             ELSE parse_children(src, c.pos, len - 1, Append(out, c.v))

parse(src, pos) ==
    LET b == get_u8(src, pos)
    IN  IF b.t # "ok" THEN b
        ELSE IF b.v \in {"+", "-"}
        THEN LET line == get_line(src, b.pos)
             IN  IF line.t # "ok" THEN line
                 ELSE IF ~from_utf8(line.v) THEN Other
                 ELSE CurOk(line.pos, IF b.v = "+" THEN Simple(line.v)
                                                   ELSE Error(line.v))
        ELSE IF b.v = ":"
        THEN LET len == get_decimal(src, b.pos)
             IN  IF len.t # "ok" THEN len ELSE CurOk(len.pos, Integer(len.v))
        ELSE IF b.v = "$"
        THEN LET p == peek_u8(src, b.pos)
             IN  IF p.t # "ok" THEN p
                 ELSE IF p.v = "-"
                 THEN LET line == get_line(src, b.pos)
                      IN  IF line.t # "ok" THEN line
                          ELSE IF line.v # <<"-", "1">> THEN Other
                          ELSE CurOk(line.pos, Null)
                 ELSE LET len == get_decimal(src, b.pos)
                      IN  IF len.t # "ok" THEN len
                          ELSE IF remaining(src, len.pos) < len.v + 2 THEN Incomplete
                          ELSE CurOk(len.pos + len.v + 2,
                                     Bulk(SubSeq(src, len.pos + 1, len.pos + len.v)))
        ELSE IF b.v = "*"
        THEN LET len == get_decimal(src, b.pos)
             IN  IF len.t # "ok" THEN len
                 ELSE parse_children(src, len.pos, len.v, <<>>)
        ELSE Panic


RECURSIVE decimal(_)
\* An unsigned decimal without leading zeros.
decimal(n) ==
    IF n < 10 THEN <<Digits[n + 1]>>
    ELSE decimal(n \div 10) \o <<Digits[(n % 10) + 1]>>

RECURSIVE encode(_)
RECURSIVE encode_all(_)
\* The on-wire bytes of a sequence of frames, one after the other.
encode_all(fs) ==
    IF fs = <<>> THEN <<>> ELSE encode(Head(fs)) \o encode_all(Tail(fs))

\* The on-wire grammar of a frame.
encode(f) ==
    IF f.t = "Simple" THEN <<"+">> \o f.v \o <<CR, LF>>
    ELSE IF f.t = "Error" THEN <<"-">> \o f.v \o <<CR, LF>>
    ELSE IF f.t = "Integer" THEN <<":">> \o decimal(f.v) \o <<CR, LF>>
    ELSE IF f.t = "Bulk"
    THEN <<"$">> \o decimal(Len(f.v)) \o <<CR, LF>> \o f.v \o <<CR, LF>>
    ELSE IF f.t = "Null" THEN <<"$", "-", "1", CR, LF>>
    ELSE <<"*">> \o decimal(Len(f.v)) \o <<CR, LF>> \o encode_all(f.v)

(***************************************************************************)
(* Commands (src/src/cmd).  A parsed command is a record [ok, kind, key,   *)
(* value, expire, channels, name]; ok = FALSE is an Err of from_frame.     *)
(* A Duration is a number of milliseconds.                                 *)
(***************************************************************************)
MillisPerSec == 1000

from_secs(secs) == secs * MillisPerSec

from_millis(ms) == ms

Cmd(kind, key, value, expire, channels, name) ==
    [ok |-> TRUE, kind |-> kind, key |-> key, value |-> value,
     expire |-> expire, channels |-> channels, name |-> name]

CmdErr ==
    [ok |-> FALSE, kind |-> "err", key |-> <<>>, value |-> <<>>,
     expire |-> None, channels |-> <<>>, name |-> <<>>]

\* What parse_frames returns: the command and the cursor it left.
Parsed(cmd, rest) == [cmd |-> cmd, rest |-> rest]

Get_parse_frames(parts) ==
    LET key == next_string(parts) IN
    IF ~key.ok THEN Parsed(CmdErr, <<>>)
    ELSE Parsed(Cmd("get", key.v, <<>>, None, <<>>, <<>>), key.rest)

Publish_parse_frames(parts) ==
    LET channel == next_string(parts) IN
    IF ~channel.ok THEN Parsed(CmdErr, <<>>)
    ELSE LET message == next_bytes(channel.rest) IN
         IF ~message.ok THEN Parsed(CmdErr, <<>>)
         ELSE Parsed(Cmd("publish", channel.v, message.v, None, <<>>, <<>>), message.rest)

Set_parse_frames(parts) ==
    LET key == next_string(parts) IN
    IF ~key.ok THEN Parsed(CmdErr, <<>>)
    ELSE LET value == next_bytes(key.rest) IN
         IF ~value.ok THEN Parsed(CmdErr, <<>>)
         ELSE LET opt == next_string(value.rest) IN
              IF opt.ok /\ to_uppercase(opt.v) = s_EX
              THEN LET secs == next_int(opt.rest) IN
                   IF ~secs.ok THEN Parsed(CmdErr, <<>>)
                   ELSE Parsed(Cmd("set", key.v, value.v, Some(from_secs(secs.v)), <<>>, <<>>),
                               secs.rest)
              ELSE IF opt.ok /\ to_uppercase(opt.v) = s_PX
              THEN LET ms == next_int(opt.rest) IN
                   IF ~ms.ok THEN Parsed(CmdErr, <<>>)
                   ELSE Parsed(Cmd("set", key.v, value.v, Some(from_millis(ms.v)), <<>>, <<>>),
                               ms.rest)
              ELSE IF opt.ok THEN Parsed(CmdErr, <<>>)
              ELSE IF opt.eos
              THEN Parsed(Cmd("set", key.v, value.v, None, <<>>, <<>>), <<>>)
              ELSE Parsed(CmdErr, <<>>)

\* The loop of next_string until EndOfStream: every child must be a string.
AllStrings(parts) == \A i \in DOMAIN parts : next_string(<<parts[i]>>).ok

Strings(parts) == [i \in DOMAIN parts |-> parts[i].v]

Subscribe_parse_frames(parts) ==
    IF parts = <<>> \/ ~AllStrings(parts) THEN Parsed(CmdErr, <<>>)
    ELSE Parsed(Cmd("subscribe", <<>>, <<>>, None, Strings(parts), <<>>), <<>>)

Unsubscribe_parse_frames(parts) ==
    IF ~AllStrings(parts) THEN Parsed(CmdErr, <<>>)
    ELSE Parsed(Cmd("unsubscribe", <<>>, <<>>, None, Strings(parts), <<>>), <<>>)

\* Ping.msg is an Option<Bytes>, kept in value.
Ping_parse_frames(parts) ==
    LET msg == next_bytes(parts) IN
    IF msg.ok THEN Parsed(Cmd("ping", <<>>, Some(msg.v), None, <<>>, <<>>), msg.rest)
    ELSE IF msg.eos THEN Parsed(Cmd("ping", <<>>, None, None, <<>>, <<>>), <<>>)
    ELSE Parsed(CmdErr, <<>>)

Unknown_new(command_name) == Cmd("unknown", <<>>, <<>>, None, <<>>, command_name)

\* The match of Command::from_frame on the lower-cased name.
CommandMatch(command_name, parts) ==
    IF command_name = s_get THEN Get_parse_frames(parts)
    ELSE IF command_name = s_publish THEN Publish_parse_frames(parts)
    ELSE IF command_name = s_set THEN Set_parse_frames(parts)
    ELSE IF command_name = s_subscribe THEN Subscribe_parse_frames(parts)
    ELSE IF command_name = s_unsubscribe THEN Unsubscribe_parse_frames(parts)
    ELSE IF command_name = s_ping THEN Ping_parse_frames(parts)
    ELSE Parsed(Unknown_new(command_name), <<>>)

\* A faulty from_frame that matches and keeps the name as it was sent.
from_frame_as_sent(frame) ==
    IF frame.t # "Array" THEN CmdErr
    ELSE LET name == next_string(frame.v) IN
         IF ~name.ok THEN CmdErr
         ELSE LET parsed == CommandMatch(name.v, name.rest) IN
              IF ~parsed.cmd.ok THEN CmdErr
              ELSE IF parsed.cmd.kind = "unknown" THEN parsed.cmd
              ELSE IF finish(parsed.rest) THEN parsed.cmd
              ELSE CmdErr

from_frame(frame) ==
    IF frame.t # "Array" THEN CmdErr
    ELSE LET name == next_string(frame.v) IN
         IF ~name.ok THEN CmdErr
         ELSE LET parsed == CommandMatch(to_lowercase(name.v), name.rest) IN
              IF ~parsed.cmd.ok THEN CmdErr
              ELSE IF parsed.cmd.kind = "unknown" THEN parsed.cmd
              ELSE IF finish(parsed.rest) THEN parsed.cmd
              ELSE CmdErr

get_name(cmd) ==
    CASE cmd.kind = "get" -> s_get
      [] cmd.kind = "publish" -> s_pub
      [] cmd.kind = "set" -> s_set
      [] cmd.kind = "subscribe" -> s_subscribe
      [] cmd.kind = "unsubscribe" -> s_unsubscribe
      [] cmd.kind = "ping" -> s_ping
      [] cmd.kind = "unknown" -> cmd.name

\* "ERR unknown command '<name>'": the fixed text is kept as one token.
UnknownText(command_name) == <<"ERR unknown command '">> \o command_name \o <<"'">>

Unknown_response(cmd) == Error(UnknownText(cmd.name))

(***************************************************************************)
(* Bounds and inputs.                                                      *)
(***************************************************************************)
\* The connections of the model (the tasks the listener spawns), and those
\* that are being served from the start in the specifications of commands.
Conns == {1, 2, 3}

Running == {1, 2}

\* The instants at which the model samples the monotonic clock
\* (milliseconds since start).
Instants == {0, 1, 1000}

k1 == <<"k","1">>
v1 == <<"v","1">>
v2 == <<"v","2">>

\* The frames a client sends in the key/value specifications; the last one
\* is a GET with a child too many.
KvFrames ==
    << Array(<<Bulk(<<"G","E","T">>), Bulk(k1)>>),
       Array(<<Bulk(<<"s","e","t">>), Bulk(k1), Bulk(v1)>>),
       Array(<<Bulk(<<"S","E","T">>), Bulk(k1), Bulk(v2), Simple(<<"E","X">>), Integer(1)>>),
       Array(<<Bulk(<<"S","e","t">>), Bulk(k1), Bulk(v1), Bulk(<<"p","x">>), Bulk(<<"1">>)>>),
       Array(<<Bulk(<<"F","O","O">>), Bulk(k1)>>),
       Array(<<Simple(<<"G","e","t","x">>), Bulk(k1), Bulk(v1)>>),
       Array(<<Bulk(s_get), Bulk(k1), Bulk(v1)>>) >>

\* Command::from_frame of each of them.
KvCmds == [i \in DOMAIN KvFrames |-> from_frame(KvFrames[i])]

ch_a == <<"a">>
ch_b == <<"b">>

\* More frames that are no command: a SET, a PUBLISH and a PING with a child
\* too many.
ErrFrames ==
    << Array(<<Bulk(<<"S","E","T">>), Bulk(k1), Bulk(v1), Bulk(<<"E","X">>), Integer(1),
               Bulk(v2)>>),
       Array(<<Bulk(<<"P","u","b","l","i","s","h">>), Bulk(ch_a), Bulk(v1), Bulk(v2)>>),
       Array(<<Bulk(<<"p","i","n","g">>), Bulk(v1), Bulk(v2)>>) >>

ErrCmds == [i \in DOMAIN ErrFrames |-> from_frame(ErrFrames[i])]

\* The number of PUBLISH commands of a behaviour.
MaxPublish == 2

\* The payload of the n-th PUBLISH: the payloads are pairwise distinct, so
\* that a payload identifies the PUBLISH it comes from.
Payload(n) == <<"m", Digits[n + 1]>>

\* The frames a client sends in the publish/subscribe specification; n is
\* the number of the next PUBLISH.
PsFrames(n) ==
    << Array(<<Bulk(<<"S","U","B","S","C","R","I","B","E">>), Bulk(ch_a)>>),
       Array(<<Bulk(s_subscribe), Bulk(ch_b), Bulk(ch_a)>>),
       Array(<<Bulk(<<"U","n","s","u","b","s","c","r","i","b","e">>)>>),
       Array(<<Bulk(s_unsubscribe), Bulk(ch_a)>>),
       Array(<<Bulk(<<"P","U","B","L","I","S","H">>), Bulk(ch_a), Bulk(Payload(n))>>),
       Array(<<Bulk(<<"G","E","T">>), Bulk(k1)>>),
       Array(<<Bulk(s_set), Bulk(k1), Bulk(v1)>>),
       Array(<<Bulk(<<"P","i","n","g">>)>>),
       Array(<<Bulk(<<"F","O","O">>), Bulk(k1)>>) >>

\* The frames a client sends in the server specification; the last two are
\* an UNSUBSCRIBE and a GET without its key.
SrvFrames ==
    << Array(<<Bulk(<<"P","I","N","G">>)>>),
       Array(<<Bulk(s_subscribe), Bulk(ch_a)>>),
       Array(<<Bulk(<<"U","N","S","U","B","S","C","R","I","B","E">>), Bulk(ch_a)>>),
       Array(<<Bulk(s_get)>>) >>

SrvCmds == [i \in DOMAIN SrvFrames |-> from_frame(SrvFrames[i])]

\* Command::from_frame of each of them, for each number of the next PUBLISH.
PsCmds ==
    [n \in 0..MaxPublish |->
        [i \in DOMAIN PsFrames(n) |-> from_frame(PsFrames(n)[i])]]

(***************************************************************************)
(* State.                                                                  *)
(***************************************************************************)
VARIABLES
    now,              \* Instant::now()
    entries,          \* State.entries: key -> [data, expires_at]
    expirations,      \* State.expirations: a set of <<when, key>>
    pub_sub,          \* State.pub_sub: the channels that have a Sender
    shutdown,         \* State.shutdown
    background_task,  \* Shared.background_task: the Notify holds a permit
    purge_pc,         \* where purge_expired_tasks stands
    purge_when,       \* the deadline of its sleep_until (an Option)
    pc,               \* where each connection's task stands
    result,           \* what Handler::run returned: "", "ok" or "err"
    out_frame,        \* the frame the task is about to write (an Option)
    ret,              \* where the task goes on after the write
    is_shutdown,      \* Shutdown.is_shutdown of each handler
    writable,         \* whether the peer's socket takes more bytes
    channels,         \* Subscribe.channels: the channels still to subscribe to
    subscriptions,    \* the StreamMap: entries [key, q], q the receiver's unread payloads
    rx,               \* the receiver Db::subscribe returned, not yet in the map
    unsub_list,       \* the channels handle_command still has to unsubscribe
    listener_pc,      \* where Listener::run stands
    backoff,          \* `backoff` of Listener::accept
    accept_failures,  \* history: the failed accepts of this call of Listener::accept
    permits,          \* the permits left in limit_connections
    permit,           \* the connections whose task holds a permit
    notify_shutdown,  \* the broadcast Sender is alive
    shutdown_complete_tx,  \* the holders of an mpsc Sender (0: the listener)
    run_pc,           \* where server::run stands
    cur,              \* the frame read_frame returned, until it is answered
    last_set,         \* per key, the last SET applied to it (an Option)
    prev_set,         \* per connection, the SET it applied last, while that is its
                      \* latest answered command
    pub_seq,          \* the number of messages published so far
    sent,             \* per connection and channel: payloads published while subscribed
    got,              \* per connection and channel: payloads written as message frames
    lagged,           \* per connection: the channels on which it lagged
    mutex,            \* Shared.state: who holds the Mutex (an Option; 0 is the reaper)
    set_local,        \* per connection: the locals of a Db::set in progress (an Option)
    purge_now,        \* `now` of a purge_expired_keys in progress (an Option)
    input,            \* history: the bytes the peer sends on the stream
    wire,             \* the bytes of the stream not yet read
    buffer,           \* Connection.buffer
    checked,          \* what the last Frame::check returned
    parsed,           \* what the last Frame::parse returned
    frames,           \* history: the frames read_frame returned
    codec_pc          \* where Connection::read_frame stands

dbVars == <<entries, expirations, pub_sub, shutdown, background_task>>
purgeVars == <<purge_pc, purge_when>>
connVars == <<pc, result, cur, out_frame, ret, is_shutdown>>
subVars == <<channels, subscriptions, rx, unsub_list>>
lifeVars == <<listener_pc, backoff, accept_failures, permits, permit, notify_shutdown,
              shutdown_complete_tx, run_pc>>
kvHist == <<last_set, prev_set>>
psHist == <<pub_seq, sent, got, lagged>>
lockVars == <<mutex, set_local, purge_now>>
codecVars == <<input, wire, buffer, checked, parsed, frames, codec_pc>>
vars == <<now, dbVars, purgeVars, connVars, writable, subVars, lifeVars,
          kvHist, psHist, lockVars, codecVars>>

\* Maps with a growing domain.
Put(f, k, x) == [y \in DOMAIN f \cup {k} |-> IF y = k THEN x ELSE f[y]]
Del(f, k) == [y \in DOMAIN f \ {k} |-> f[y]]
EmptyMap == [y \in {} |-> 0]

(***************************************************************************)
(* Db (src/src/db.rs).                                                     *)
(***************************************************************************)
Entry(data, expires_at) == [data |-> data, expires_at |-> expires_at]

\* (when, key) pairs are ordered by when, then by key.
PairLess(a, b) == a[1] < b[1] \/ (a[1] = b[1] /\ StrLess(a[2], b[2]))

First(set) == CHOOSE a \in set : \A b \in set \ {a} : PairLess(a, b)

next_expiration(exps) == IF exps = {} THEN None ELSE Some(First(exps)[1])

Db_get(key) == IF key \in DOMAIN entries THEN Some(entries[key].data) ELSE None

\* `when` of Db::set.
Set_when(expire) == IF expire = None THEN None ELSE Some(now + expire[1])

\* A faulty Db::set that never wakes the reaper.
Set_notify_never(expire) == FALSE

\* A faulty Db::set that wakes the reaper only when nothing was tracked.
Set_notify_if_none(expire) == expire # None /\ next_expiration(expirations) = None

\* `notify` of Db::set, computed before the entry is inserted.
Set_notify(expire) ==
    /\ expire # None
    /\ \/ next_expiration(expirations) = None
       \/ next_expiration(expirations)[1] > Set_when(expire)[1]

\* A faulty Db::set that leaves the pair of the previous entry in place.
PrevPair_kept(key) == {}

\* The pair of the previous entry of key, which Db::set removes.
PrevPair(key) ==
    IF key \in DOMAIN entries /\ entries[key].expires_at # None
    THEN {<<entries[key].expires_at[1], key>>}
    ELSE {}

\* A faulty Db::set that keeps the data of an entry that exists.
Db_set_keep_existing(key, value, expire) ==
    /\ entries' = Put(entries, key,
                      Entry(IF key \in DOMAIN entries THEN entries[key].data ELSE value,
                            Set_when(expire)))
    /\ expirations' =
          (expirations \ PrevPair(key))
             \cup (IF expire = None THEN {} ELSE {<<Set_when(expire)[1], key>>})

\* Db::set up to drop(state); notify_one follows, outside the mutex.
Db_set(key, value, expire) ==
    /\ entries' = Put(entries, key, Entry(value, Set_when(expire)))
    /\ expirations' =
          (expirations \ PrevPair(key))
             \cup (IF expire = None THEN {} ELSE {<<Set_when(expire)[1], key>>})

notify_one == background_task' = TRUE

\* The pairs purge_expired_keys removes: those not after now.
Expired == {p \in expirations : ~(p[1] > now)}

purge_expired_keys ==
    IF shutdown
    THEN /\ UNCHANGED <<entries, expirations>>
         /\ purge_when' = None
    ELSE /\ entries' = [k \in DOMAIN entries \ {p[2] : p \in Expired} |-> entries[k]]
         /\ expirations' = expirations \ Expired
         /\ purge_when' = next_expiration(expirations \ Expired)

Shared_is_shutdown == shutdown

(***************************************************************************)
(* The clock.                                                              *)
(***************************************************************************)
Tick ==
    /\ \E t \in Instants : t > now /\ now' = t
    /\ UNCHANGED <<codecVars, lockVars, dbVars, purgeVars, connVars, writable, subVars,
                   lifeVars, kvHist, psHist>>

(***************************************************************************)
(* purge_expired_tasks (src/src/db.rs): the reaper's loop.                 *)
(*   "check"  while !shared.is_shutdown()                                  *)
(*   "purge"  shared.purge_expired_keys()                                  *)
(*   "sleep"  select! { sleep_until(when), background_task.notified() }    *)
(*   "wait"   background_task.notified().await                             *)
(*   "done"   the task has returned                                        *)
(***************************************************************************)
PurgeCheck ==
    /\ purge_pc = "check"
    /\ purge_pc' = IF Shared_is_shutdown THEN "done" ELSE "purge"
    /\ UNCHANGED <<codecVars, now, lockVars, dbVars, purge_when, connVars, writable, subVars, lifeVars,
                   kvHist, psHist>>

PurgeKeys ==
    /\ purge_pc = "purge"
    /\ purge_expired_keys
    /\ purge_pc' = IF purge_when' # None THEN "sleep" ELSE "wait"
    /\ UNCHANGED <<codecVars, now, lockVars, pub_sub, shutdown, background_task, connVars, writable,
                   subVars, lifeVars, kvHist, psHist>>

\* sleep_until(when) completes.
PurgeTimer ==
    /\ purge_pc = "sleep"
    /\ now >= purge_when[1]
    /\ purge_pc' = "check"
    /\ UNCHANGED <<codecVars, now, lockVars, dbVars, purge_when, connVars, writable, subVars, lifeVars,
                   kvHist, psHist>>

\* notified() completes: it takes the permit notify_one left.
PurgeNotified ==
    /\ purge_pc \in {"sleep", "wait"}
    /\ background_task
    /\ background_task' = FALSE
    /\ purge_pc' = "check"
    /\ UNCHANGED <<codecVars, now, lockVars, entries, expirations, pub_sub, shutdown, purge_when,
                   connVars, writable, subVars, lifeVars, kvHist, psHist>>

(***************************************************************************)
(* Handler::run in the normal sub-state (src/src/server.rs) and the apply  *)
(* of each command (src/src/cmd).  At "read" the task is in the select!    *)
(* over read_frame and shutdown.recv.  An action Xxx_apply(h, frame, cmd)  *)
(* is read_frame returning `frame`, Command::from_frame returning `cmd`    *)
(* and the command's apply up to its first await or unlock.                *)
(***************************************************************************)
\* The name the client sent, as it sent it.
SentName(frame) == Head(frame.v).v

\* The task has read `frame` and goes to write `response`, then on at `after`.
Respond(h, frame, response, after) ==
    /\ cur' = [cur EXCEPT ![h] = Some(frame)]
    /\ out_frame' = [out_frame EXCEPT ![h] = Some(response)]
    /\ ret' = [ret EXCEPT ![h] = after]

\* A faulty Get::apply that answers an absent key with an empty Bulk.
Get_response_default(key) == IF Db_get(key) # None THEN Bulk(Db_get(key)[1]) ELSE Bulk(<<>>)

Get_response(key) == IF Db_get(key) # None THEN Bulk(Db_get(key)[1]) ELSE Null

Get_apply(h, frame, cmd) ==
    /\ pc[h] = "read"
    /\ cmd.ok /\ cmd.kind = "get"
    /\ Respond(h, frame, Get_response(cmd.key), "read")
    /\ pc' = [pc EXCEPT ![h] = "write"]
    /\ UNCHANGED <<codecVars, now, lockVars, dbVars, purgeVars, result, is_shutdown, writable, subVars,
                   lifeVars, kvHist, psHist>>

\* A faulty Set::apply that leaves the reply to be written while
\* Handler::run reads on.
Set_apply_no_wait(h, frame, cmd) ==
    /\ pc[h] = "read"
    /\ cmd.ok /\ cmd.kind = "set"
    /\ Db_set(cmd.key, cmd.value, cmd.expire)
    /\ Respond(h, frame, Simple(s_OK), "read")
    /\ pc' = pc
    /\ last_set' = Put(last_set, cmd.key,
                       [value |-> cmd.value, when |-> Set_when(cmd.expire), by |-> h])
    /\ prev_set' = [prev_set EXCEPT ![h] = Some([key |-> cmd.key, value |-> cmd.value])]
    /\ UNCHANGED <<codecVars, now, lockVars, pub_sub, shutdown, background_task, purgeVars, result,
                   is_shutdown, writable, subVars, lifeVars, psHist>>

Set_apply(h, frame, cmd) ==
    /\ pc[h] = "read"
    /\ cmd.ok /\ cmd.kind = "set"
    /\ Db_set(cmd.key, cmd.value, cmd.expire)
    /\ Respond(h, frame, Simple(s_OK), "read")
    /\ pc' = [pc EXCEPT ![h] = IF Set_notify(cmd.expire) THEN "notify" ELSE "write"]
    /\ last_set' = Put(last_set, cmd.key,
                       [value |-> cmd.value, when |-> Set_when(cmd.expire), by |-> h])
    /\ prev_set' = [prev_set EXCEPT ![h] = Some([key |-> cmd.key, value |-> cmd.value])]
    /\ UNCHANGED <<codecVars, now, lockVars, pub_sub, shutdown, background_task, purgeVars, result,
                   is_shutdown, writable, subVars, lifeVars, psHist>>

\* The end of Db::set: background_task.notify_one(), after the mutex is released.
Set_notify_one(h) ==
    /\ pc[h] = "notify"
    /\ notify_one
    /\ pc' = [pc EXCEPT ![h] = "write"]
    /\ UNCHANGED <<codecVars, now, lockVars, entries, expirations, pub_sub, shutdown, purgeVars, result,
                   cur, out_frame, ret, is_shutdown, writable, subVars, lifeVars,
                   kvHist, psHist>>

Ping_response(cmd) == IF cmd.value = None THEN Simple(s_PONG) ELSE Bulk(cmd.value[1])

Ping_apply(h, frame, cmd) ==
    /\ pc[h] = "read"
    /\ cmd.ok /\ cmd.kind = "ping"
    /\ Respond(h, frame, Ping_response(cmd), "read")
    /\ pc' = [pc EXCEPT ![h] = "write"]
    /\ prev_set' = [prev_set EXCEPT ![h] = None]
    /\ UNCHANGED <<codecVars, now, lockVars, dbVars, purgeVars, result, is_shutdown, writable, subVars,
                   lifeVars, last_set, psHist>>

Unknown_apply(h, frame, cmd) ==
    /\ pc[h] = "read"
    /\ cmd.ok /\ cmd.kind = "unknown"
    /\ Respond(h, frame, Unknown_response(cmd), "read")
    /\ pc' = [pc EXCEPT ![h] = "write"]
    /\ prev_set' = [prev_set EXCEPT ![h] = None]
    /\ UNCHANGED <<codecVars, now, lockVars, dbVars, purgeVars, result, is_shutdown, writable, subVars,
                   lifeVars, last_set, psHist>>

(***************************************************************************)
(* Publish/subscribe (src/src/db.rs, src/src/cmd/publish.rs,               *)
(* src/src/cmd/subscribe.rs).  A broadcast Receiver is the sequence of the *)
(* payloads it has not read yet: a send appends to every live receiver of  *)
(* the channel and a receiver that falls more than the capacity behind     *)
(* loses its oldest payloads.  The StreamMap of a connection is a vector   *)
(* of entries [key, q], q being the receiver of channel key.               *)
(***************************************************************************)
\* The capacity of broadcast::channel(1024) of Db::subscribe, scaled to 1.
CAPACITY == 1

\* A faulty channel that refuses the new payload when a receiver is full.
Retain_oldest(q) == IF Len(q) > CAPACITY THEN SubSeq(q, 1, CAPACITY) ELSE q

\* What a receiver retains: the last CAPACITY payloads.
Retain(q) == IF Len(q) > CAPACITY THEN SubSeq(q, Len(q) - CAPACITY + 1, Len(q)) ELSE q

\* A faulty StreamMap::keys that yields the first key only.
StreamMap_keys_first(map) == IF map = <<>> THEN <<>> ELSE <<map[1].key>>

StreamMap_keys(map) == [i \in DOMAIN map |-> map[i].key]

StreamMap_has(map, key) == \E i \in DOMAIN map : map[i].key = key

\* A faulty StreamMap::remove that pops the last entry instead.
StreamMap_remove_last(map, key) ==
    IF ~StreamMap_has(map, key) THEN map
    ELSE SubSeq(map, 1, Len(map) - 1)

\* StreamMap::remove: swap_remove of the entry of key, if there is one.
StreamMap_remove(map, key) ==
    IF ~StreamMap_has(map, key) THEN map
    ELSE LET i == CHOOSE j \in DOMAIN map : map[j].key = key
         IN [j \in 1..(Len(map) - 1) |-> IF j = i THEN map[Len(map)] ELSE map[j]]

\* A faulty StreamMap::insert that pushes without removing the entry of key.
StreamMap_insert_push(map, key, q) == Append(map, [key |-> key, q |-> q])

\* StreamMap::insert: the entry of key, if any, is removed and dropped, the
\* new one is pushed.
StreamMap_insert(map, key, q) == Append(StreamMap_remove(map, key), [key |-> key, q |-> q])

\* The receivers connection h holds on channel key: in its StreamMap, and
\* the one Db::subscribe has returned that is not in the map yet.
HoldsInMap(h, key) == StreamMap_has(subscriptions[h], key)

HoldsFresh(h, key) == rx[h] # None /\ rx[h][1].key = key

Subscribed(h, key) == HoldsInMap(h, key) \/ HoldsFresh(h, key)

\* Sender::receiver_count of the channel.
receiver_count(key) ==
    Cardinality({h \in Conns : HoldsInMap(h, key)})
       + Cardinality({h \in Conns : HoldsFresh(h, key)})

\* A faulty Db::publish that reports one receiver when the channel has no
\* Sender.
Db_publish_count_or_one(key) == IF key \in pub_sub THEN receiver_count(key) ELSE 1

\* Db::publish: the value Sender::send returns, 0 when there is no Sender or
\* no receiver.
Db_publish_count(key) == IF key \in pub_sub THEN receiver_count(key) ELSE 0

\* A faulty Db::publish that sends to the receivers of every channel.
Db_publish_to_all(key, value) ==
    /\ subscriptions' =
          [h \in Conns |->
              [i \in DOMAIN subscriptions[h] |->
                  [key |-> subscriptions[h][i].key,
                   q |-> Retain(Append(subscriptions[h][i].q, value))]]]
    /\ rx' = [h \in Conns |->
                 IF rx[h] # None
                 THEN Some([key |-> rx[h][1].key, q |-> Retain(Append(rx[h][1].q, value))])
                 ELSE rx[h]]

\* Db::publish: what Sender::send does to the receivers.
Db_publish(key, value) ==
    /\ subscriptions' =
          [h \in Conns |->
              [i \in DOMAIN subscriptions[h] |->
                  IF subscriptions[h][i].key = key
                  THEN [key |-> key, q |-> Retain(Append(subscriptions[h][i].q, value))]
                  ELSE subscriptions[h][i]]]
    /\ rx' = [h \in Conns |->
                 IF HoldsFresh(h, key)
                 THEN Some([key |-> key, q |-> Retain(Append(rx[h][1].q, value))])
                 ELSE rx[h]]

\* Some receiver of h on key loses a payload when one more is sent.
Overflows(h, key) ==
    \/ \E i \in DOMAIN subscriptions[h] :
          subscriptions[h][i].key = key /\ Len(subscriptions[h][i].q) >= CAPACITY
    \/ HoldsFresh(h, key) /\ Len(rx[h][1].q) >= CAPACITY

\* A faulty Db::subscribe whose receiver starts with the payloads sent so
\* far (every PUBLISH of the model goes to channel a).
Db_subscribe_replay(h, key) ==
    /\ pub_sub' = pub_sub \cup {key}
    /\ rx' = [rx EXCEPT ![h] =
                 Some([key |-> key,
                       q |-> IF key = ch_a THEN [i \in 1..pub_seq |-> Payload(i - 1)]
                                           ELSE <<>>])]

\* Db::subscribe: the Sender is created if absent; the new receiver is empty.
Db_subscribe(h, key) ==
    /\ pub_sub' = pub_sub \cup {key}
    /\ rx' = [rx EXCEPT ![h] = Some([key |-> key, q |-> <<>>])]

make_subscribe_frame(channel_name, num_subs) ==
    Array(<<Bulk(s_subscribe), Bulk(channel_name), Integer(num_subs)>>)

make_unsubscribe_frame(channel_name, num_subs) ==
    Array(<<Bulk(s_unsubscribe), Bulk(channel_name), Integer(num_subs)>>)

make_message_frame(channel_name, msg) ==
    Array(<<Bulk(s_message), Bulk(channel_name), Bulk(msg)>>)

IsMessageFrame(frame) ==
    frame.t = "Array" /\ Len(frame.v) = 3 /\ frame.v[1] = Bulk(s_message)

\* Publish::apply up to write_frame.
Publish_apply(h, frame, cmd) ==
    /\ pc[h] = "read"
    /\ cmd.ok /\ cmd.kind = "publish"
    /\ pub_seq < MaxPublish
    /\ Db_publish(cmd.key, cmd.value)
    /\ Respond(h, frame, Integer(Db_publish_count(cmd.key)), "read")
    /\ pc' = [pc EXCEPT ![h] = "write"]
    /\ pub_seq' = pub_seq + 1
    /\ sent' = [s \in Conns |->
                   IF cmd.key \in pub_sub /\ Subscribed(s, cmd.key)
                   THEN Put(sent[s], cmd.key, Append(sent[s][cmd.key], cmd.value))
                   ELSE sent[s]]
    /\ lagged' = [s \in Conns |->
                     IF cmd.key \in pub_sub /\ Overflows(s, cmd.key)
                     THEN lagged[s] \cup {cmd.key} ELSE lagged[s]]
    /\ prev_set' = [prev_set EXCEPT ![h] = None]
    /\ UNCHANGED <<codecVars, now, lockVars, dbVars, purgeVars, result, is_shutdown, writable, channels,
                   unsub_list, lifeVars, last_set, got>>

\* Subscribe::apply is entered: the StreamMap is created empty.
Subscribe_apply(h, frame, cmd) ==
    /\ pc[h] = "read"
    /\ cmd.ok /\ cmd.kind = "subscribe"
    /\ channels' = [channels EXCEPT ![h] = cmd.channels]
    /\ subscriptions' = [subscriptions EXCEPT ![h] = <<>>]
    /\ pc' = [pc EXCEPT ![h] = "loop"]
    /\ prev_set' = [prev_set EXCEPT ![h] = None]
    /\ UNCHANGED <<codecVars, now, lockVars, dbVars, purgeVars, result, cur, out_frame, ret, is_shutdown,
                   writable, rx, unsub_list, lifeVars, last_set, psHist>>

\* subscribe_to_channel, first half: db.subscribe(channel_name) for the next
\* channel drained from self.channels.
Sub_subscribe(h) ==
    /\ pc[h] = "loop"
    /\ channels[h] # <<>>
    /\ Db_subscribe(h, Head(channels[h]))
    /\ channels' = [channels EXCEPT ![h] = Tail(channels[h])]
    /\ pc' = [pc EXCEPT ![h] = "insert"]
    /\ sent' = [sent EXCEPT ![h] =
                   IF Head(channels[h]) \in DOMAIN sent[h] THEN sent[h]
                   ELSE Put(sent[h], Head(channels[h]), <<>>)]
    /\ got' = [got EXCEPT ![h] =
                  IF Head(channels[h]) \in DOMAIN got[h] THEN got[h]
                  ELSE Put(got[h], Head(channels[h]), <<>>)]
    /\ UNCHANGED <<codecVars, now, lockVars, entries, expirations, shutdown, background_task, purgeVars,
                   result, cur, out_frame, ret, is_shutdown, writable, subscriptions,
                   unsub_list, lifeVars, kvHist, pub_seq, lagged>>

\* subscribe_to_channel, second half: subscriptions.insert, which drops the
\* receiver the map held for the channel, and the acknowledgement.
Sub_insert(h) ==
    /\ pc[h] = "insert"
    /\ subscriptions' = [subscriptions EXCEPT ![h] =
                            StreamMap_insert(subscriptions[h], rx[h][1].key, rx[h][1].q)]
    /\ rx' = [rx EXCEPT ![h] = None]
    /\ out_frame' = [out_frame EXCEPT ![h] =
                        Some(make_subscribe_frame(rx[h][1].key, Len(subscriptions'[h])))]
    /\ ret' = [ret EXCEPT ![h] = "loop"]
    /\ pc' = [pc EXCEPT ![h] = "write"]
    /\ UNCHANGED <<codecVars, now, lockVars, dbVars, purgeVars, result, cur, is_shutdown, writable,
                   channels, unsub_list, lifeVars, kvHist, psHist>>

\* The task is in the select! of Subscribe::apply.
InSelect(h) == pc[h] = "loop" /\ channels[h] = <<>>

\* select!: subscriptions.next() yields the oldest payload of some receiver.
Sub_next(h) ==
    /\ InSelect(h)
    /\ \E i \in DOMAIN subscriptions[h] :
          /\ subscriptions[h][i].q # <<>>
          /\ subscriptions' = [subscriptions EXCEPT ![h][i].q = Tail(@)]
          /\ out_frame' = [out_frame EXCEPT ![h] =
                              Some(make_message_frame(subscriptions[h][i].key,
                                                      Head(subscriptions[h][i].q)))]
    /\ ret' = [ret EXCEPT ![h] = "loop"]
    /\ pc' = [pc EXCEPT ![h] = "write"]
    /\ UNCHANGED <<codecVars, now, lockVars, dbVars, purgeVars, result, cur, is_shutdown, writable,
                   channels, rx, unsub_list, lifeVars, kvHist, psHist>>

\* select!: read_frame returns a SUBSCRIBE; handle_command extends
\* subscribe_to, nothing is written.
Sub_handle_subscribe(h, frame, cmd) ==
    /\ InSelect(h)
    /\ cmd.ok /\ cmd.kind = "subscribe"
    /\ channels' = [channels EXCEPT ![h] = channels[h] \o cmd.channels]
    /\ UNCHANGED <<codecVars, now, lockVars, dbVars, purgeVars, connVars, writable, subscriptions, rx,
                   unsub_list, lifeVars, kvHist, psHist>>

\* select!: read_frame returns an UNSUBSCRIBE; without channels it names
\* the keys of the map.
Sub_handle_unsubscribe(h, frame, cmd) ==
    /\ InSelect(h)
    /\ cmd.ok /\ cmd.kind = "unsubscribe"
    /\ LET list == IF cmd.channels = <<>> THEN StreamMap_keys(subscriptions[h])
                   ELSE cmd.channels
       IN /\ unsub_list' = [unsub_list EXCEPT ![h] = list]
          /\ pc' = [pc EXCEPT ![h] = IF list = <<>> THEN "loop" ELSE "unsub"]
          /\ cur' = [cur EXCEPT ![h] = IF list = <<>> THEN None ELSE Some(frame)]
    /\ UNCHANGED <<codecVars, now, lockVars, dbVars, purgeVars, result, out_frame, ret, is_shutdown,
                   writable, channels, subscriptions, rx, lifeVars, kvHist, psHist>>

\* A faulty handle_command that removes the Sender of a channel when its
\* last receiver is unsubscribed.
Sub_unsubscribe_drops_sender(h) ==
    /\ pc[h] = "unsub"
    /\ LET key == Head(unsub_list[h]) IN
          /\ subscriptions' = [subscriptions EXCEPT ![h] = StreamMap_remove(@, key)]
          /\ out_frame' = [out_frame EXCEPT ![h] =
                              Some(make_unsubscribe_frame(key, Len(subscriptions'[h])))]
          /\ sent' = [sent EXCEPT ![h] = Del(@, key)]
          /\ got' = [got EXCEPT ![h] = Del(@, key)]
          /\ lagged' = [lagged EXCEPT ![h] = @ \ {key}]
          /\ pub_sub' = IF \A g \in Conns \ {h} : ~Subscribed(g, key)
                        THEN pub_sub \ {key} ELSE pub_sub
    /\ unsub_list' = [unsub_list EXCEPT ![h] = Tail(@)]
    /\ ret' = [ret EXCEPT ![h] = IF Tail(unsub_list[h]) = <<>> THEN "loop" ELSE "unsub"]
    /\ pc' = [pc EXCEPT ![h] = "write"]
    /\ UNCHANGED <<codecVars, now, lockVars, entries, expirations, shutdown, background_task,
                   purgeVars, result, cur, is_shutdown, writable,
                   channels, rx, lifeVars, kvHist, pub_seq>>

\* A faulty handle_command that goes back to Handler::run when the last
\* channel has been unsubscribed.
Sub_unsubscribe_leaves(h) ==
    /\ pc[h] = "unsub"
    /\ LET key == Head(unsub_list[h]) IN
          /\ subscriptions' = [subscriptions EXCEPT ![h] = StreamMap_remove(@, key)]
          /\ out_frame' = [out_frame EXCEPT ![h] =
                              Some(make_unsubscribe_frame(key, Len(subscriptions'[h])))]
          /\ sent' = [sent EXCEPT ![h] = Del(@, key)]
          /\ got' = [got EXCEPT ![h] = Del(@, key)]
          /\ lagged' = [lagged EXCEPT ![h] = @ \ {key}]
    /\ unsub_list' = [unsub_list EXCEPT ![h] = Tail(@)]
    /\ ret' = [ret EXCEPT ![h] = IF Tail(unsub_list[h]) # <<>> THEN "unsub"
                                 ELSE IF subscriptions'[h] = <<>> THEN "read" ELSE "loop"]
    /\ pc' = [pc EXCEPT ![h] = "write"]
    /\ UNCHANGED <<codecVars, now, lockVars, dbVars, purgeVars, result, cur, is_shutdown, writable,
                   channels, rx, lifeVars, kvHist, pub_seq>>

\* handle_command, the body of its loop: subscriptions.remove and the
\* acknowledgement of one channel.
Sub_unsubscribe(h) ==
    /\ pc[h] = "unsub"
    /\ LET key == Head(unsub_list[h]) IN
          /\ subscriptions' = [subscriptions EXCEPT ![h] = StreamMap_remove(@, key)]
          /\ out_frame' = [out_frame EXCEPT ![h] =
                              Some(make_unsubscribe_frame(key, Len(subscriptions'[h])))]
          /\ sent' = [sent EXCEPT ![h] = Del(@, key)]
          /\ got' = [got EXCEPT ![h] = Del(@, key)]
          /\ lagged' = [lagged EXCEPT ![h] = @ \ {key}]
    /\ unsub_list' = [unsub_list EXCEPT ![h] = Tail(@)]
    /\ ret' = [ret EXCEPT ![h] = IF Tail(unsub_list[h]) = <<>> THEN "loop" ELSE "unsub"]
    /\ pc' = [pc EXCEPT ![h] = "write"]
    /\ UNCHANGED <<codecVars, now, lockVars, dbVars, purgeVars, result, cur, is_shutdown, writable,
                   channels, rx, lifeVars, kvHist, pub_seq>>

\* A faulty handle_command that answers any other command and loses the
\* subscriptions of the connection.
Sub_handle_other_resets(h, frame, cmd) ==
    /\ InSelect(h)
    /\ cmd.ok /\ cmd.kind \notin {"subscribe", "unsubscribe"}
    /\ Respond(h, frame, Unknown_response(Unknown_new(get_name(cmd))), "loop")
    /\ pc' = [pc EXCEPT ![h] = "write"]
    /\ subscriptions' = [subscriptions EXCEPT ![h] = <<>>]
    /\ UNCHANGED <<codecVars, now, lockVars, dbVars, purgeVars, result, is_shutdown, writable, channels,
                   rx, unsub_list, lifeVars, kvHist, psHist>>

\* handle_command, any other command: Unknown::new(command.get_name()).apply.
Sub_handle_other(h, frame, cmd) ==
    /\ InSelect(h)
    /\ cmd.ok /\ cmd.kind \notin {"subscribe", "unsubscribe"}
    /\ Respond(h, frame, Unknown_response(Unknown_new(get_name(cmd))), "loop")
    /\ pc' = [pc EXCEPT ![h] = "write"]
    /\ UNCHANGED <<codecVars, now, lockVars, dbVars, purgeVars, result, is_shutdown, writable, subVars,
                   lifeVars, kvHist, psHist>>

\* What the written frame adds to the payloads delivered to h.
Delivered(h) ==
    IF out_frame[h] # None /\ IsMessageFrame(out_frame[h][1])
    THEN LET key == out_frame[h][1].v[2].v
         IN IF key \in DOMAIN got[h]
            THEN Put(got[h], key, Append(got[h][key], out_frame[h][1].v[3].v))
            ELSE got[h]
    ELSE got[h]

\* write_frame completes: the peer has the frame.  The command read is
\* over unless acknowledgements of it remain to be written.  (prev_set
\* outlives the command that follows the SET until that command is answered.)
Write(h) ==
    /\ pc[h] = "write"
    /\ writable[h]
    /\ pc' = [pc EXCEPT ![h] = ret[h]]
    /\ cur' = [cur EXCEPT ![h] = IF ret[h] = "unsub" THEN cur[h] ELSE None]
    /\ out_frame' = [out_frame EXCEPT ![h] = None]
    /\ prev_set' = [prev_set EXCEPT ![h] =
                       IF cur[h] # None /\ from_frame(cur[h][1]).kind = "set"
                       THEN prev_set[h] ELSE None]
    /\ got' = [got EXCEPT ![h] = Delivered(h)]
    /\ UNCHANGED <<codecVars, now, lockVars, dbVars, purgeVars, result, ret, is_shutdown, writable,
                   subVars, lifeVars, last_set, pub_seq, sent, lagged>>

(***************************************************************************)
(* The ways a handler ends (src/src/server.rs, src/src/cmd/subscribe.rs)   *)
(* and what the spawned task does after it.                                *)
(*   "returned"  Handler::run has returned; the task holds its permit      *)
(*   "dropping"  drop(permit) is done; the Handler is still to be dropped  *)
(*   "gone"      the task has ended and its Handler is dropped             *)
(***************************************************************************)
\* A faulty return that takes the handlers of all connections down.
Return_all(h, res) ==
    /\ pc' = [g \in Conns |-> IF pc[g] = "none" THEN "none" ELSE "returned"]
    /\ result' = [result EXCEPT ![h] = res]
    /\ out_frame' = [out_frame EXCEPT ![h] = None]
    /\ subscriptions' = [subscriptions EXCEPT ![h] = <<>>]
    /\ rx' = [rx EXCEPT ![h] = None]
    /\ channels' = [channels EXCEPT ![h] = <<>>]
    /\ unsub_list' = [unsub_list EXCEPT ![h] = <<>>]
    /\ sent' = [sent EXCEPT ![h] = EmptyMap]
    /\ got' = [got EXCEPT ![h] = EmptyMap]
    /\ lagged' = [lagged EXCEPT ![h] = {}]
    /\ prev_set' = [prev_set EXCEPT ![h] = None]
    /\ writable' = [writable EXCEPT ![h] = TRUE]

\* Handler::run returns res; the StreamMap of Subscribe::apply, if any, is
\* dropped with its receivers, and nothing more is written to the socket.
\* (cur is set by the caller: the frame that made run fail, if one did.)
Return(h, res) ==
    /\ pc' = [pc EXCEPT ![h] = "returned"]
    /\ result' = [result EXCEPT ![h] = res]
    /\ out_frame' = [out_frame EXCEPT ![h] = None]
    /\ subscriptions' = [subscriptions EXCEPT ![h] = <<>>]
    /\ rx' = [rx EXCEPT ![h] = None]
    /\ channels' = [channels EXCEPT ![h] = <<>>]
    /\ unsub_list' = [unsub_list EXCEPT ![h] = <<>>]
    /\ sent' = [sent EXCEPT ![h] = EmptyMap]
    /\ got' = [got EXCEPT ![h] = EmptyMap]
    /\ lagged' = [lagged EXCEPT ![h] = {}]
    /\ prev_set' = [prev_set EXCEPT ![h] = None]
    /\ writable' = [writable EXCEPT ![h] = TRUE]

\* Shutdown::recv completes once the broadcast Sender has been dropped.
Shutdown_recv_ready == ~notify_shutdown

\* A faulty Handler::run whose select! also covers Command::apply: the
\* shutdown signal cancels a command that is being answered.
Run_shutdown_any(h) ==
    /\ pc[h] \in {"read", "notify", "write"}
    /\ ret[h] = "read"
    /\ Shutdown_recv_ready
    /\ is_shutdown' = [is_shutdown EXCEPT ![h] = TRUE]
    /\ Return(h, "ok")
    /\ cur' = [cur EXCEPT ![h] = None]
    /\ UNCHANGED <<codecVars, now, lockVars, dbVars, purgeVars, ret, lifeVars, last_set, pub_seq>>

\* select! of Handler::run: shutdown.recv() wins.
Run_shutdown(h) ==
    /\ pc[h] = "read"
    /\ Shutdown_recv_ready
    /\ is_shutdown' = [is_shutdown EXCEPT ![h] = TRUE]
    /\ Return(h, "ok")
    /\ cur' = [cur EXCEPT ![h] = None]
    /\ UNCHANGED <<codecVars, now, lockVars, dbVars, purgeVars, ret, lifeVars, last_set, pub_seq>>

\* read_frame returns None: the peer has closed the connection.
Run_closed(h) ==
    /\ pc[h] = "read"
    /\ Return(h, "ok")
    /\ cur' = [cur EXCEPT ![h] = None]
    /\ UNCHANGED <<codecVars, now, lockVars, dbVars, purgeVars, ret, is_shutdown, lifeVars,
                   last_set, pub_seq>>

\* read_frame returns an error (the connection was reset, or the bytes are
\* no frame).
Run_read_err(h) ==
    /\ pc[h] = "read"
    /\ Return(h, "err")
    /\ cur' = [cur EXCEPT ![h] = None]
    /\ UNCHANGED <<codecVars, now, lockVars, dbVars, purgeVars, ret, is_shutdown, lifeVars,
                   last_set, pub_seq>>

\* A faulty Command::apply that answers an Unsubscribe as an unknown
\* command, so that Handler::run goes on.
Run_bad_frame_answers(h, frame, cmd) ==
    /\ pc[h] = "read"
    /\ ~cmd.ok \/ cmd.kind = "unsubscribe"
    /\ IF cmd.ok
       THEN /\ Respond(h, frame, Unknown_response(Unknown_new(get_name(cmd))), "read")
            /\ pc' = [pc EXCEPT ![h] = "write"]
            /\ prev_set' = [prev_set EXCEPT ![h] = None]
            /\ UNCHANGED <<result, writable, subVars, sent, got, lagged>>
       ELSE /\ Return(h, "err")
            /\ cur' = [cur EXCEPT ![h] = Some(frame)]
            /\ UNCHANGED ret
    /\ UNCHANGED <<codecVars, now, lockVars, dbVars, purgeVars, is_shutdown, lifeVars, last_set, pub_seq>>

\* Command::from_frame fails, or the command is an Unsubscribe, which
\* Command::apply refuses.
Run_bad_frame(h, frame, cmd) ==
    /\ pc[h] = "read"
    /\ ~cmd.ok \/ cmd.kind = "unsubscribe"
    /\ Return(h, "err")
    /\ cur' = [cur EXCEPT ![h] = Some(frame)]
    /\ UNCHANGED <<codecVars, now, lockVars, dbVars, purgeVars, ret, is_shutdown, lifeVars,
                   last_set, pub_seq>>

\* select! of Subscribe::apply: shutdown.recv() wins.
Sub_shutdown(h) ==
    /\ InSelect(h)
    /\ Shutdown_recv_ready
    /\ is_shutdown' = [is_shutdown EXCEPT ![h] = TRUE]
    /\ Return(h, "ok")
    /\ cur' = [cur EXCEPT ![h] = None]
    /\ UNCHANGED <<codecVars, now, lockVars, dbVars, purgeVars, ret, lifeVars, last_set, pub_seq>>

Sub_closed(h) ==
    /\ InSelect(h)
    /\ Return(h, "ok")
    /\ cur' = [cur EXCEPT ![h] = None]
    /\ UNCHANGED <<codecVars, now, lockVars, dbVars, purgeVars, ret, is_shutdown, lifeVars,
                   last_set, pub_seq>>

Sub_read_err(h) ==
    /\ InSelect(h)
    /\ Return(h, "err")
    /\ cur' = [cur EXCEPT ![h] = None]
    /\ UNCHANGED <<codecVars, now, lockVars, dbVars, purgeVars, ret, is_shutdown, lifeVars,
                   last_set, pub_seq>>

\* handle_command: Command::from_frame fails.
Sub_bad_frame(h, frame, cmd) ==
    /\ InSelect(h)
    /\ ~cmd.ok
    /\ Return(h, "err")
    /\ cur' = [cur EXCEPT ![h] = Some(frame)]
    /\ UNCHANGED <<codecVars, now, lockVars, dbVars, purgeVars, ret, is_shutdown, lifeVars,
                   last_set, pub_seq>>

\* write_frame fails: the peer is gone.
Write_err(h) ==
    /\ pc[h] = "write"
    /\ Return(h, "err")
    /\ cur' = [cur EXCEPT ![h] = None]
    /\ UNCHANGED <<codecVars, now, lockVars, dbVars, purgeVars, ret, is_shutdown, lifeVars,
                   last_set, pub_seq>>

\* The peer stops reading while a frame is being written to it, and reads
\* again.
Peer_stalls(h) ==
    /\ pc[h] = "write"
    /\ writable[h]
    /\ writable' = [writable EXCEPT ![h] = FALSE]
    /\ UNCHANGED <<codecVars, now, lockVars, dbVars, purgeVars, connVars, subVars, lifeVars, kvHist, psHist>>

Peer_resumes(h) ==
    /\ pc[h] = "write"
    /\ ~writable[h]
    /\ writable' = [writable EXCEPT ![h] = TRUE]
    /\ UNCHANGED <<codecVars, now, lockVars, dbVars, purgeVars, connVars, subVars, lifeVars, kvHist, psHist>>

\* A faulty task that returns with `?` when handler.run() failed, and
\* forgets the permit in that case.
Task_drop_permit_on_ok(h) ==
    /\ pc[h] = "returned"
    /\ pc' = [pc EXCEPT ![h] = "dropping"]
    /\ permit' = IF result[h] = "ok" THEN permit \ {h} ELSE permit
    /\ permits' = IF result[h] = "ok" THEN permits + 1 ELSE permits
    /\ cur' = [cur EXCEPT ![h] = None]
    /\ UNCHANGED <<codecVars, now, lockVars, dbVars, purgeVars, result, out_frame, ret, is_shutdown,
                   writable, subVars, listener_pc, backoff, accept_failures, notify_shutdown,
                   shutdown_complete_tx, run_pc, kvHist, psHist>>

\* The spawned task after handler.run(): drop(permit).
Task_drop_permit(h) ==
    /\ pc[h] = "returned"
    /\ pc' = [pc EXCEPT ![h] = "dropping"]
    /\ permit' = permit \ {h}
    /\ permits' = permits + 1
    /\ cur' = [cur EXCEPT ![h] = None]
    /\ UNCHANGED <<codecVars, now, lockVars, dbVars, purgeVars, result, out_frame, ret, is_shutdown,
                   writable, subVars, listener_pc, backoff, accept_failures, notify_shutdown,
                   shutdown_complete_tx, run_pc, kvHist, psHist>>

\* The task ends: the Handler it captured is dropped, and with it the
\* connection and the handler's clone of shutdown_complete_tx.
Task_drop_handler(h) ==
    /\ pc[h] = "dropping"
    /\ pc' = [pc EXCEPT ![h] = "gone"]
    /\ shutdown_complete_tx' = shutdown_complete_tx \ {h}
    /\ UNCHANGED <<codecVars, now, lockVars, dbVars, purgeVars, result, cur, out_frame, ret, is_shutdown,
                   writable, subVars, listener_pc, backoff, accept_failures, permits, permit,
                   notify_shutdown, run_pc, kvHist, psHist>>

(***************************************************************************)
(* Listener::run and Listener::accept (src/src/server.rs).                 *)
(*   "acquire"  limit_connections.acquire_owned().await                    *)
(*   "accept"   self.listener.accept().await, holding the permit           *)
(*   "sleep"    time::sleep(backoff) after a failed accept                 *)
(*   "failed"   accept has returned the error, and run with it             *)
(*   "dropped"  the future was dropped by the select! of server::run       *)
(***************************************************************************)
\* A faulty acquire that never waits.
acquire_unchecked == TRUE

\* acquire_owned completes when the semaphore has a permit.
acquire_ready == permits > 0

Listener_acquire ==
    /\ listener_pc = "acquire"
    /\ acquire_ready
    /\ permits' = permits - 1
    /\ listener_pc' = "accept"
    /\ backoff' = 1
    /\ accept_failures' = 0
    /\ UNCHANGED <<codecVars, now, lockVars, dbVars, purgeVars, connVars, writable, subVars, permit,
                   notify_shutdown, shutdown_complete_tx, run_pc, kvHist, psHist>>

\* The connections are numbered in the order in which they are accepted.
NextConn(h) == pc[h] = "none" /\ \A g \in Conns : g < h => pc[g] # "none"

\* accept succeeds: the Handler is built (it subscribes to notify_shutdown
\* and clones shutdown_complete_tx) and its task is spawned with the permit.
Listener_accept(h) ==
    /\ listener_pc = "accept"
    /\ NextConn(h)
    /\ pc' = [pc EXCEPT ![h] = "read"]
    /\ permit' = permit \cup {h}
    /\ shutdown_complete_tx' = shutdown_complete_tx \cup {h}
    /\ listener_pc' = "acquire"
    /\ UNCHANGED <<codecVars, now, lockVars, dbVars, purgeVars, result, cur, out_frame, ret, is_shutdown,
                   writable, subVars, backoff, accept_failures, permits, notify_shutdown, run_pc,
                   kvHist, psHist>>

\* The longest sleep of Listener::accept, in seconds.
MaxBackoff == 64

\* A faulty accept that returns the error as soon as backoff has reached 64.
Listener_accept_err_early ==
    /\ listener_pc = "accept"
    /\ listener_pc' = IF backoff >= MaxBackoff THEN "failed" ELSE "sleep"
    /\ permits' = IF backoff >= MaxBackoff THEN permits + 1 ELSE permits
    /\ accept_failures' = accept_failures + 1
    /\ UNCHANGED <<codecVars, now, lockVars, dbVars, purgeVars, connVars, writable, subVars, backoff,
                   permit, notify_shutdown, shutdown_complete_tx, run_pc, kvHist,
                   psHist>>

\* accept fails: the error is returned once backoff exceeds 64, otherwise
\* the task sleeps.
Listener_accept_err ==
    /\ listener_pc = "accept"
    /\ listener_pc' = IF backoff > MaxBackoff THEN "failed" ELSE "sleep"
    /\ permits' = IF backoff > MaxBackoff THEN permits + 1 ELSE permits
    /\ accept_failures' = accept_failures + 1
    /\ UNCHANGED <<codecVars, now, lockVars, dbVars, purgeVars, connVars, writable, subVars, backoff,
                   permit, notify_shutdown, shutdown_complete_tx, run_pc, kvHist,
                   psHist>>

\* The sleep is over: backoff *= 2 and accept is tried again.
Listener_slept ==
    /\ listener_pc = "sleep"
    /\ backoff' = backoff * 2
    /\ listener_pc' = "accept"
    /\ UNCHANGED <<codecVars, accept_failures, now, lockVars, dbVars, purgeVars, connVars, writable,
                   subVars, permits,
                   permit, notify_shutdown, shutdown_complete_tx, run_pc, kvHist,
                   psHist>>

(***************************************************************************)
(* server::run (src/src/server.rs).                                        *)
(*   "select"  select! { server.run(), shutdown }                          *)
(*   "recv"    shutdown_complete_rx.recv().await                           *)
(*   "guard"   run returns: the DbDropGuard is dropped, the flag is set    *)
(*   "done"    shutdown_purge_task has notified the reaper                 *)
(***************************************************************************)
\* The permit the listener's future holds is released when it is dropped.
ListenerPermit == IF listener_pc \in {"accept", "sleep"} THEN 1 ELSE 0

\* A faulty run that drops notify_shutdown while the future of
\* Listener::run goes on accepting.
Run_select_listener_kept ==
    /\ run_pc = "select"
    /\ UNCHANGED <<listener_pc, permits>>
    /\ notify_shutdown' = FALSE
    /\ shutdown_complete_tx' = shutdown_complete_tx \ {0}
    /\ run_pc' = "recv"
    /\ UNCHANGED <<codecVars, now, lockVars, dbVars, purgeVars, connVars, writable, subVars, backoff, accept_failures,
                   permit, kvHist, psHist>>

\* select! completes, by the shutdown signal or by the listener's error;
\* notify_shutdown and the listener's shutdown_complete_tx are dropped.
Run_select ==
    /\ run_pc = "select"
    /\ listener_pc' = IF listener_pc = "failed" THEN "failed" ELSE "dropped"
    /\ permits' = permits + ListenerPermit
    /\ notify_shutdown' = FALSE
    /\ shutdown_complete_tx' = shutdown_complete_tx \ {0}
    /\ run_pc' = "recv"
    /\ UNCHANGED <<codecVars, now, lockVars, dbVars, purgeVars, connVars, writable, subVars, backoff, accept_failures,
                   permit, kvHist, psHist>>

\* A faulty recv that waits for the listener's Sender only.
recv_listener_only == 0 \notin shutdown_complete_tx

\* A faulty run that returns, and drops the DbDropGuard, without waiting.
recv_not_awaited == TRUE

\* recv returns None once every Sender of shutdown_complete has been dropped.
recv_ready == shutdown_complete_tx = {}

\* recv completes and run returns: DbDropGuard::drop calls
\* shutdown_purge_task, which sets the flag under the mutex.
Run_recv ==
    /\ run_pc = "recv"
    /\ recv_ready
    /\ shutdown' = TRUE
    /\ run_pc' = "guard"
    /\ UNCHANGED <<codecVars, now, lockVars, entries, expirations, pub_sub, background_task, purgeVars,
                   connVars, writable, subVars, listener_pc, backoff, accept_failures, permits, permit,
                   notify_shutdown, shutdown_complete_tx, kvHist, psHist>>

\* shutdown_purge_task, after the mutex is released: notify_one.
Run_notify ==
    /\ run_pc = "guard"
    /\ notify_one
    /\ run_pc' = "done"
    /\ UNCHANGED <<codecVars, now, lockVars, entries, expirations, pub_sub, shutdown, purgeVars, connVars,
                   writable, subVars, listener_pc, backoff, accept_failures, permits, permit,
                   notify_shutdown, shutdown_complete_tx, kvHist, psHist>>

(***************************************************************************)
(* Initial states.                                                         *)
(***************************************************************************)
\* Db::new: an empty State, and the reaper spawned.
(***************************************************************************)
(* Connection::read_frame over a byte stream: the peer's bytes arrive in   *)
(* chunks of any size; each round runs Frame::check on the buffer and,     *)
(* when it succeeds, Frame::parse from position 0, and advances the buffer *)
(* past the frame.                                                         *)
(*   "idle"    no stream is decoded                                        *)
(*   "parse"   parse_frame is about to run on the buffer                   *)
(*   "read"    the check was incomplete: read more bytes of the stream     *)
(*   "closed"  end of stream with an empty buffer: no frame                *)
(*   "reset"   end of stream with a non-empty buffer                       *)
(*   "error"   Frame::check or Frame::parse failed                         *)
(*   "panic"   Frame::parse panicked                                       *)
(***************************************************************************)
\* The longest of the byte streams that are tried byte by byte.
MaxLen == 4

Bytes == {"+", "-", ":", "$", "*", "0", "1", CR, LF, XFF}

ByteSeqs(n) == UNION {[1..k -> Bytes] : k \in 0..n}

\* Frames of every kind, with binary and empty payloads and a nested array.
SampleFrames ==
    { Simple(<<>>), Simple(s_OK), Error(<<"e">>), Integer(0), Integer(12),
      Bulk(<<>>), Bulk(<<"a">>), Bulk(<<CR, LF>>), Bulk(<<"$", "-">>), Null,
      Array(<<>>), Array(<<Bulk(s_get), Bulk(<<"k">>)>>),
      Array(<<Integer(1), Array(<<Null>>)>>) }

\* Byte streams that are no sequence of frames of the grammar.
Malformed ==
    { <<"$", "-", "2", CR, LF>>, <<"$", "-", "1", "a", "b">>,
      <<"$", "-", "-", CR, LF>>, <<"+", "a", XFF, CR, LF>>,
      <<"*", "1", CR, LF, XFF, CR, LF>>, <<"*", "1", CR, LF, "$", "-", "0", CR, LF>>,
      <<"$", "1", CR, LF, "a", "b", "c">>, <<":", "x", CR, LF>>,
      <<"$", "2", CR, LF, "a">> }

\* One frame, two frames in a row, the malformed streams and every short stream.
Inputs ==
    {encode(f) : f \in SampleFrames}
    \cup {encode(f) \o encode(g) : f \in {Simple(s_OK), Null, Bulk(<<"a">>)},
                                   g \in {Integer(12), Array(<<Null>>)}}
    \cup Malformed
    \cup ByteSeqs(MaxLen)

InitCodec ==
    /\ input = <<>>
    /\ wire = <<>>
    /\ buffer = <<>>
    /\ checked = Incomplete
    /\ parsed = Incomplete
    /\ frames = <<>>
    /\ codec_pc = "idle"

Drop(s, n) == SubSeq(s, n + 1, Len(s))

\* stream.read_buf(&mut buffer) returned n > 0 bytes.
Stream_read(n) ==
    /\ codec_pc = "read"
    /\ n \in 1..Len(wire)
    /\ buffer' = buffer \o SubSeq(wire, 1, n)
    /\ wire' = Drop(wire, n)
    /\ codec_pc' = "parse"
    /\ UNCHANGED <<input, checked, parsed, frames>>
    /\ UNCHANGED <<now, lockVars, dbVars, purgeVars, connVars, writable, subVars, lifeVars,
                   kvHist, psHist>>

\* stream.read_buf(&mut buffer) returned 0 bytes: the peer closed the stream.
Stream_eof ==
    /\ codec_pc = "read"
    /\ wire = <<>>
    /\ codec_pc' = IF buffer = <<>> THEN "closed" ELSE "reset"
    /\ UNCHANGED <<input, wire, buffer, checked, parsed, frames>>
    /\ UNCHANGED <<now, lockVars, dbVars, purgeVars, connVars, writable, subVars, lifeVars,
                   kvHist, psHist>>

\* Connection::parse_frame: Frame::check, then Frame::parse from position 0.
Parse_frame ==
    /\ codec_pc = "parse"
    /\ checked' = check(buffer, 0)
    /\ IF checked'.t = "ok"
       THEN /\ parsed' = parse(buffer, 0)
            /\ IF parsed'.t = "ok"
               THEN /\ frames' = Append(frames, parsed'.v)
                    /\ buffer' = Drop(buffer, checked'.pos)
                    /\ codec_pc' = "parse"
               ELSE /\ codec_pc' = IF parsed'.t = "panic" THEN "panic" ELSE "error"
                    /\ UNCHANGED <<frames, buffer>>
       ELSE /\ codec_pc' = IF checked'.t = "incomplete" THEN "read" ELSE "error"
            /\ UNCHANGED <<parsed, frames, buffer>>
    /\ UNCHANGED <<input, wire>>
    /\ UNCHANGED <<now, lockVars, dbVars, purgeVars, connVars, writable, subVars, lifeVars,
                   kvHist, psHist>>

InitDb ==
    /\ now = 0
    /\ entries = EmptyMap
    /\ expirations = {}
    /\ pub_sub = {}
    /\ shutdown = FALSE
    /\ background_task = FALSE
    /\ purge_pc = "check"
    /\ purge_when = None
    /\ mutex = None
    /\ set_local = [h \in Conns |-> None]
    /\ purge_now = None

InitHist ==
    /\ last_set = EmptyMap
    /\ prev_set = [h \in Conns |-> None]
    /\ pub_seq = 0
    /\ sent = [h \in Conns |-> EmptyMap]
    /\ got = [h \in Conns |-> EmptyMap]
    /\ lagged = [h \in Conns |-> {}]

\* The connections in `running` have been accepted and their handlers run.
InitConns(running) ==
    /\ pc = [h \in Conns |-> IF h \in running THEN "read" ELSE "none"]
    /\ result = [h \in Conns |-> ""]
    /\ cur = [h \in Conns |-> None]
    /\ out_frame = [h \in Conns |-> None]
    /\ ret = [h \in Conns |-> "read"]
    /\ is_shutdown = [h \in Conns |-> FALSE]
    /\ writable = [h \in Conns |-> TRUE]
    /\ channels = [h \in Conns |-> <<>>]
    /\ subscriptions = [h \in Conns |-> <<>>]
    /\ rx = [h \in Conns |-> None]
    /\ unsub_list = [h \in Conns |-> <<>>]
    /\ permit = running
    /\ shutdown_complete_tx = running \cup {0}

\* MAX_CONNECTIONS of src/src/server.rs is 250; the model runs with 2.
MAX_CONNECTIONS == 2

\* The listener is about to acquire a permit; no shutdown is signalled.
InitListener(running) ==
    /\ listener_pc = "acquire"
    /\ backoff = 1
    /\ accept_failures = 0
    /\ permits = MAX_CONNECTIONS - Cardinality(running)
    /\ notify_shutdown = TRUE
    /\ run_pc = "select"

(***************************************************************************)
(* SpecDbLock: Spec with Db::set and purge_expired_keys taken statement by *)
(* statement under the Mutex of Shared.state, and Db::get under the same   *)
(* Mutex.  The holder of the Mutex is Some(h) for the task of connection   *)
(* h and Some(0) for the reaper.                                           *)
(*   "set_insert"  state.entries.insert(..)                                *)
(*   "set_remove"  state.expirations.remove(&(when, key)) of the previous  *)
(*   "set_track"   state.expirations.insert((when, key))                   *)
(*   "set_drop"    drop(state)                                             *)
(*   "purging"     the while loop of purge_expired_keys, at its head       *)
(*   "untrack"     state.expirations.remove(..) of the expired key         *)
(***************************************************************************)
\* A faulty Db::get that reads the state without locking it.
Get_lock_skipped == TRUE

\* Db::get: self.shared.state.lock() returns.
Get_lock_ready == mutex = None

Db_get_locked(h, frame, cmd) ==
    /\ Get_lock_ready
    /\ Get_apply(h, frame, cmd)

\* Db::set: lock(), then `expires_at` and `notify`.
Set_begin(h, frame, cmd) ==
    /\ pc[h] = "read"
    /\ cmd.ok /\ cmd.kind = "set"
    /\ mutex = None
    /\ mutex' = Some(h)
    /\ set_local' = [set_local EXCEPT ![h] =
                        Some([key |-> cmd.key, value |-> cmd.value,
                              expires_at |-> Set_when(cmd.expire),
                              notify |-> Set_notify(cmd.expire),
                              prev |-> None])]
    /\ cur' = [cur EXCEPT ![h] = Some(frame)]
    /\ pc' = [pc EXCEPT ![h] = "set_insert"]
    /\ UNCHANGED <<codecVars, now, purge_now, dbVars, purgeVars, result, out_frame, ret,
                   is_shutdown, writable, subVars, lifeVars, kvHist, psHist>>

\* let prev = state.entries.insert(key, Entry { data, expires_at }).
Set_insert(h) ==
    /\ pc[h] = "set_insert"
    /\ LET l == set_local[h][1] IN
          /\ entries' = Put(entries, l.key, Entry(l.value, l.expires_at))
          /\ set_local' = [set_local EXCEPT ![h] =
                              Some([l EXCEPT !.prev =
                                       IF l.key \in DOMAIN entries
                                       THEN Some(entries[l.key]) ELSE None])]
    /\ pc' = [pc EXCEPT ![h] = "set_remove"]
    /\ UNCHANGED <<codecVars, now, mutex, purge_now, expirations, pub_sub, shutdown,
                   background_task, purgeVars, result, cur, out_frame, ret,
                   is_shutdown, writable, subVars, lifeVars, kvHist, psHist>>

\* A faulty Db::set that leaves the pair of the previous entry in
\* expirations.
Set_remove_skipped(h) ==
    /\ pc[h] = "set_remove"
    /\ pc' = [pc EXCEPT ![h] = "set_track"]
    /\ UNCHANGED <<codecVars, now, lockVars, dbVars, purgeVars, result, cur, out_frame, ret,
                   is_shutdown, writable, subVars, lifeVars, kvHist, psHist>>

\* if let Some(prev) = prev { if let Some(when) = prev.expires_at { remove } }.
Set_remove(h) ==
    /\ pc[h] = "set_remove"
    /\ LET l == set_local[h][1] IN
          expirations' =
             IF l.prev # None /\ l.prev[1].expires_at # None
             THEN expirations \ {<<l.prev[1].expires_at[1], l.key>>}
             ELSE expirations
    /\ pc' = [pc EXCEPT ![h] = "set_track"]
    /\ UNCHANGED <<codecVars, now, lockVars, entries, pub_sub, shutdown, background_task,
                   purgeVars, result, cur, out_frame, ret, is_shutdown, writable,
                   subVars, lifeVars, kvHist, psHist>>

\* if let Some(when) = expires_at { state.expirations.insert((when, key)) }.
Set_track(h) ==
    /\ pc[h] = "set_track"
    /\ LET l == set_local[h][1] IN
          expirations' =
             IF l.expires_at # None
             THEN expirations \cup {<<l.expires_at[1], l.key>>}
             ELSE expirations
    /\ pc' = [pc EXCEPT ![h] = "set_drop"]
    /\ UNCHANGED <<codecVars, now, lockVars, entries, pub_sub, shutdown, background_task,
                   purgeVars, result, cur, out_frame, ret, is_shutdown, writable,
                   subVars, lifeVars, kvHist, psHist>>

\* drop(state); Db::set goes on to notify_one if `notify`, and Set::apply
\* to write_frame of OK.
Set_drop(h) ==
    /\ pc[h] = "set_drop"
    /\ mutex' = None
    /\ set_local' = [set_local EXCEPT ![h] = None]
    /\ LET l == set_local[h][1] IN
          /\ pc' = [pc EXCEPT ![h] = IF l.notify THEN "notify" ELSE "write"]
          /\ last_set' = Put(last_set, l.key,
                             [value |-> l.value, when |-> l.expires_at, by |-> h])
          /\ prev_set' = [prev_set EXCEPT ![h] = Some([key |-> l.key, value |-> l.value])]
    /\ out_frame' = [out_frame EXCEPT ![h] = Some(Simple(s_OK))]
    /\ ret' = [ret EXCEPT ![h] = "read"]
    /\ UNCHANGED <<codecVars, now, purge_now, dbVars, purgeVars, result, cur, is_shutdown,
                   writable, subVars, lifeVars, psHist>>

\* A faulty purge_expired_keys that does not look at state.shutdown.
Purge_begin_unchecked ==
    /\ purge_pc = "purge"
    /\ mutex = None
    /\ mutex' = Some(0)
    /\ purge_now' = Some(now)
    /\ purge_pc' = "purging"
    /\ UNCHANGED <<codecVars, now, purge_when, set_local, dbVars, connVars, writable, subVars,
                   lifeVars, kvHist, psHist>>

\* purge_expired_keys: lock(), the test of state.shutdown, Instant::now().
Purge_begin ==
    /\ purge_pc = "purge"
    /\ mutex = None
    /\ IF shutdown
       THEN /\ purge_when' = None
            /\ purge_pc' = "wait"
            /\ UNCHANGED <<mutex, purge_now>>
       ELSE /\ mutex' = Some(0)
            /\ purge_now' = Some(now)
            /\ purge_pc' = "purging"
            /\ UNCHANGED purge_when
    /\ UNCHANGED <<codecVars, now, set_local, dbVars, connVars, writable, subVars, lifeVars,
                   kvHist, psHist>>

\* A faulty purge_expired_keys that removes the key of the first pair
\* whatever its instant.
Purge_next_any ==
    /\ purge_pc = "purging"
    /\ IF expirations # {}
       THEN /\ entries' = [k \in DOMAIN entries \ {First(expirations)[2]} |-> entries[k]]
            /\ purge_pc' = "untrack"
            /\ UNCHANGED <<mutex, purge_now, purge_when>>
       ELSE /\ purge_when' = None
            /\ purge_pc' = "wait"
            /\ mutex' = None
            /\ purge_now' = None
            /\ UNCHANGED entries
    /\ UNCHANGED <<codecVars, now, set_local, expirations, pub_sub, shutdown, background_task,
                   connVars, writable, subVars, lifeVars, kvHist, psHist>>

\* The head of the while loop: the first pair is returned if it is after
\* `now`, else its key is removed from entries; None when no pair is left.
Purge_next ==
    /\ purge_pc = "purging"
    /\ IF expirations # {} /\ ~(First(expirations)[1] > purge_now[1])
       THEN /\ entries' = [k \in DOMAIN entries \ {First(expirations)[2]} |-> entries[k]]
            /\ purge_pc' = "untrack"
            /\ UNCHANGED <<mutex, purge_now, purge_when>>
       ELSE /\ purge_when' = next_expiration(expirations)
            /\ purge_pc' = IF expirations # {} THEN "sleep" ELSE "wait"
            /\ mutex' = None
            /\ purge_now' = None
            /\ UNCHANGED entries
    /\ UNCHANGED <<codecVars, now, set_local, expirations, pub_sub, shutdown, background_task,
                   connVars, writable, subVars, lifeVars, kvHist, psHist>>

\* state.expirations.remove(&(when, key.clone())).
Purge_untrack ==
    /\ purge_pc = "untrack"
    /\ expirations' = expirations \ {First(expirations)}
    /\ purge_pc' = "purging"
    /\ UNCHANGED <<codecVars, now, lockVars, entries, pub_sub, shutdown, background_task,
                   purge_when, connVars, writable, subVars, lifeVars, kvHist, psHist>>

NextDbLock ==
    \/ Tick
    \/ PurgeCheck
    \/ Purge_begin
    \/ Purge_next
    \/ Purge_untrack
    \/ PurgeTimer
    \/ PurgeNotified
    \/ \E h \in Conns, i \in DOMAIN KvFrames :
          \/ Db_get_locked(h, KvFrames[i], KvCmds[i])
          \/ Set_begin(h, KvFrames[i], KvCmds[i])
    \/ \E h \in Conns :
          \/ Set_insert(h)
          \/ Set_remove(h)
          \/ Set_track(h)
          \/ Set_drop(h)
          \/ Set_notify_one(h)
          \/ Write(h)

\* shutdown_purge_task sets the flag under the Mutex.
Shutdown_purge_locked ==
    /\ mutex = None
    /\ Run_recv

(***************************************************************************)
(* SpecReaper: the reaper from Db::new to its return; SETs of the running  *)
(* connection and the purges taken statement by statement under the       *)
(* Mutex, and a shutdown of the server: the handler returns on the signal  *)
(* or when its peer closes, and shutdown_purge_task follows.             *)
(* FairReaper: the reaper's task and the tasks of the handlers are         *)
(* scheduled when they can go on (a thread that waits for the Mutex gets   *)
(* it at some time: strong fairness of the two lock() of the reaper and of *)
(* shutdown_purge_task), and server::run goes on after recv.               *)
(***************************************************************************)
NextReaper ==
    \/ Tick
    \/ PurgeCheck
    \/ Purge_begin
    \/ Purge_next
    \/ Purge_untrack
    \/ PurgeTimer
    \/ PurgeNotified
    \/ \E h \in Conns, i \in DOMAIN KvFrames : Set_begin(h, KvFrames[i], KvCmds[i])
    \/ \E h \in Conns :
          \/ Set_insert(h)
          \/ Set_remove(h)
          \/ Set_track(h)
          \/ Set_drop(h)
          \/ Set_notify_one(h)
          \/ Write(h)
          \/ Run_shutdown(h)
          \/ Run_closed(h)
          \/ Task_drop_permit(h)
          \/ Task_drop_handler(h)
    \/ Run_select
    \/ Shutdown_purge_locked
    \/ Run_notify

FairReaper ==
    /\ WF_vars(PurgeCheck \/ Purge_next \/ Purge_untrack \/ PurgeTimer \/ PurgeNotified)
    /\ SF_vars(Purge_begin)
    /\ SF_vars(Shutdown_purge_locked)
    /\ WF_vars(Run_notify)
    /\ \A h \in Conns :
          /\ WF_vars(Set_insert(h) \/ Set_remove(h) \/ Set_track(h) \/ Set_drop(h)
                        \/ Set_notify_one(h))
          /\ WF_vars(Task_drop_permit(h) \/ Task_drop_handler(h))

(***************************************************************************)
(* Spec: the key/value commands of two running connections, the reaper and *)
(* the clock.                                                              *)
(***************************************************************************)
Init ==
    /\ InitDb
    /\ InitHist
    /\ InitConns(Running)
    /\ InitListener(Running)
    /\ InitCodec

Next ==
    \/ Tick
    \/ PurgeCheck
    \/ PurgeKeys
    \/ PurgeTimer
    \/ PurgeNotified
    \/ \E h \in Conns, i \in DOMAIN KvFrames :
          \/ Get_apply(h, KvFrames[i], KvCmds[i])
          \/ Set_apply(h, KvFrames[i], KvCmds[i])
          \/ Unknown_apply(h, KvFrames[i], KvCmds[i])
    \/ \E h \in Conns :
          \/ Set_notify_one(h)
          \/ Write(h)

Spec == Init /\ [][Next]_vars

SpecDbLock == Init /\ [][NextDbLock]_vars

\* One connection has been accepted and its handler runs.
InitReaper ==
    /\ InitDb
    /\ InitHist
    /\ InitConns({1})
    /\ InitListener({1})
    /\ InitCodec

SpecReaper == InitReaper /\ [][NextReaper]_vars

SpecReaperFair == InitReaper /\ [][NextReaper]_vars /\ FairReaper

(***************************************************************************)
(* SpecKvErr: Spec with the errors of a connection: a frame that is no     *)
(* command (of KvFrames or of ErrFrames), a read error and a write error   *)
(* end its handler.                                                        *)
(***************************************************************************)
NextKvErr ==
    \/ Next
    \/ \E h \in Conns, i \in DOMAIN KvFrames : Run_bad_frame(h, KvFrames[i], KvCmds[i])
    \/ \E h \in Conns, i \in DOMAIN ErrFrames : Run_bad_frame(h, ErrFrames[i], ErrCmds[i])
    \/ \E h \in Conns :
          \/ Run_read_err(h)
          \/ Write_err(h)

SpecKvErr == Init /\ [][NextKvErr]_vars

(***************************************************************************)
(* SpecPubSub: two running connections that publish, subscribe and         *)
(* unsubscribe, and send the other commands while subscribed.              *)
(***************************************************************************)
NextPubSub ==
    \/ \E h \in Conns, i \in DOMAIN PsFrames(0) :
          \/ Publish_apply(h, PsFrames(pub_seq)[i], PsCmds[pub_seq][i])
          \/ Subscribe_apply(h, PsFrames(pub_seq)[i], PsCmds[pub_seq][i])
          \/ Ping_apply(h, PsFrames(pub_seq)[i], PsCmds[pub_seq][i])
          \/ Sub_handle_subscribe(h, PsFrames(pub_seq)[i], PsCmds[pub_seq][i])
          \/ Sub_handle_unsubscribe(h, PsFrames(pub_seq)[i], PsCmds[pub_seq][i])
          \/ Sub_handle_other(h, PsFrames(pub_seq)[i], PsCmds[pub_seq][i])
    \/ \E h \in Conns :
          \/ Sub_subscribe(h)
          \/ Sub_insert(h)
          \/ Sub_next(h)
          \/ Sub_unsubscribe(h)
          \/ Write(h)

SpecPubSub == Init /\ [][NextPubSub]_vars

(***************************************************************************)
(* SpecSubEnd: publish/subscribe on one channel with the ways              *)
(* Subscribe::apply ends: the peer                                         *)
(* closes, read_frame fails, a frame is no command, or the shutdown signal *)
(* of server::run is received; and with the failure of write_frame.        *)
(***************************************************************************)
\* The frames of PsFrames that name channel a only: SUBSCRIBE a, an
\* Unsubscribe of all channels, PUBLISH, GET, SET and PING.
SubEndFrames == {1, 3, 5, 6, 7, 8}

NextSubEnd ==
    \/ \E h \in Conns, i \in SubEndFrames :
          \/ Publish_apply(h, PsFrames(pub_seq)[i], PsCmds[pub_seq][i])
          \/ Subscribe_apply(h, PsFrames(pub_seq)[i], PsCmds[pub_seq][i])
          \/ Ping_apply(h, PsFrames(pub_seq)[i], PsCmds[pub_seq][i])
          \/ Sub_handle_subscribe(h, PsFrames(pub_seq)[i], PsCmds[pub_seq][i])
          \/ Sub_handle_unsubscribe(h, PsFrames(pub_seq)[i], PsCmds[pub_seq][i])
          \/ Sub_handle_other(h, PsFrames(pub_seq)[i], PsCmds[pub_seq][i])
    \/ \E h \in Conns :
          \/ Sub_subscribe(h)
          \/ Sub_insert(h)
          \/ Sub_next(h)
          \/ Sub_unsubscribe(h)
          \/ Write(h)
    \/ Run_select
    \/ \E h \in Conns :
          \/ Sub_bad_frame(h, SrvFrames[4], SrvCmds[4])
          \/ Sub_shutdown(h)
          \/ Sub_closed(h)
          \/ Sub_read_err(h)
          \/ Write_err(h)

SpecSubEnd == Init /\ [][NextSubEnd]_vars

(***************************************************************************)
(* SpecChannels: everything that touches the database while channels are   *)
(* in use.  Connection 1 subscribes and unsubscribes until its peer        *)
(* closes; connection 2 publishes and sets k1 with a TTL until its peer    *)
(* closes; the reaper purges the entry of k1.                              *)
(***************************************************************************)
\* The frames of PsFrames connection 1 sends: SUBSCRIBE a, subscribe b a
\* and Unsubscribe (all channels).
SubscriberFrames == {1, 2, 3}

NextChannels ==
    \/ Tick
    \/ PurgeCheck
    \/ PurgeKeys
    \/ PurgeTimer
    \/ PurgeNotified
    \/ \E i \in SubscriberFrames :
          \/ Subscribe_apply(1, PsFrames(pub_seq)[i], PsCmds[pub_seq][i])
          \/ Sub_handle_subscribe(1, PsFrames(pub_seq)[i], PsCmds[pub_seq][i])
          \/ Sub_handle_unsubscribe(1, PsFrames(pub_seq)[i], PsCmds[pub_seq][i])
    \/ Sub_subscribe(1)
    \/ Sub_insert(1)
    \/ Sub_next(1)
    \/ Sub_unsubscribe(1)
    \/ Sub_closed(1)
    \/ Publish_apply(2, PsFrames(pub_seq)[5], PsCmds[pub_seq][5])
    \/ Set_apply(2, KvFrames[4], KvCmds[4])
    \/ Set_notify_one(2)
    \/ Run_closed(2)
    \/ \E h \in Conns : Write(h)

SpecChannels == Init /\ [][NextChannels]_vars

(***************************************************************************)
(* SpecCmdShutdown: the commands of the normal sub-state while server::run *)
(* shuts down.  The handlers serve GET, SET (with and without a TTL),      *)
(* PUBLISH, PING and SUBSCRIBE a; their peers may stop reading, writes may *)
(* fail, and the shutdown signal fires at any moment.                      *)
(***************************************************************************)
NextCmdShutdown ==
    \/ \E h \in Conns, i \in {1, 2, 3} :
          \/ Get_apply(h, KvFrames[i], KvCmds[i])
          \/ Set_apply(h, KvFrames[i], KvCmds[i])
    \/ \E h \in Conns, i \in {1, 5, 8} :
          \/ Publish_apply(h, PsFrames(pub_seq)[i], PsCmds[pub_seq][i])
          \/ Ping_apply(h, PsFrames(pub_seq)[i], PsCmds[pub_seq][i])
          \/ Subscribe_apply(h, PsFrames(pub_seq)[i], PsCmds[pub_seq][i])
    \/ \E h \in Conns :
          \/ Set_notify_one(h)
          \/ Sub_subscribe(h)
          \/ Sub_insert(h)
          \/ Sub_next(h)
          \/ Write(h)
          \/ Write_err(h)
          \/ Peer_stalls(h)
          \/ Peer_resumes(h)
          \/ Run_shutdown(h)
          \/ Sub_shutdown(h)
          \/ Run_closed(h)
    \/ Run_select

SpecCmdShutdown == Init /\ [][NextCmdShutdown]_vars

(***************************************************************************)
(* SpecFrame: Connection::read_frame decodes a byte stream that arrives in *)
(* chunks of any size; the stream is any of Inputs.                        *)
(***************************************************************************)
InitFrame ==
    /\ InitDb
    /\ InitHist
    /\ InitConns({})
    /\ InitListener({})
    /\ input \in Inputs
    /\ wire = input
    /\ buffer = <<>>
    /\ checked = Incomplete
    /\ parsed = Incomplete
    /\ frames = <<>>
    /\ codec_pc = "parse"

NextFrame ==
    \/ \E n \in 1..Len(wire) : Stream_read(n)
    \/ Stream_eof
    \/ Parse_frame

SpecFrame == InitFrame /\ [][NextFrame]_vars


(***************************************************************************)
(* SpecServer: the listener admits connections, their handlers serve PING  *)
(* and SUBSCRIBE until the peer closes, an error occurs or shutdown fires, *)
(* and server::run shuts down.  SpecServerFair adds the scheduling: a      *)
(* task that can run does run, a write completes if the socket takes      *)
(* bytes again and again, and a select! that finds the shutdown branch     *)
(* ready again and again takes it; nothing is assumed of the peers or of   *)
(* the moment the shutdown signal fires.                                   *)
(***************************************************************************)
InitServer ==
    /\ InitDb
    /\ InitHist
    /\ InitConns({})
    /\ InitListener({})
    /\ InitCodec

NextServer ==
    \/ PurgeCheck
    \/ PurgeKeys
    \/ PurgeNotified
    \/ Listener_acquire
    \/ \E h \in Conns : Listener_accept(h)
    \/ Listener_accept_err
    \/ Listener_slept
    \/ Run_select
    \/ Run_recv
    \/ Run_notify
    \/ \E h \in Conns, i \in DOMAIN SrvFrames :
          \/ Ping_apply(h, SrvFrames[i], SrvCmds[i])
          \/ Subscribe_apply(h, SrvFrames[i], SrvCmds[i])
          \/ Run_bad_frame(h, SrvFrames[i], SrvCmds[i])
          \/ Sub_bad_frame(h, SrvFrames[i], SrvCmds[i])
    \/ \E h \in Conns :
          \/ Run_shutdown(h)
          \/ Run_closed(h)
          \/ Run_read_err(h)
          \/ Sub_subscribe(h)
          \/ Sub_insert(h)
          \/ Sub_shutdown(h)
          \/ Sub_closed(h)
          \/ Sub_read_err(h)
          \/ Write(h)
          \/ Write_err(h)
          \/ Peer_stalls(h)
          \/ Peer_resumes(h)
          \/ Task_drop_permit(h)
          \/ Task_drop_handler(h)

SpecServer == InitServer /\ [][NextServer]_vars

FairServer ==
    /\ WF_vars(PurgeCheck \/ PurgeKeys \/ PurgeNotified)
    /\ WF_vars(Run_recv \/ Run_notify)
    /\ \A h \in Conns :
          /\ WF_vars(Sub_subscribe(h) \/ Sub_insert(h))
          /\ SF_vars(Write(h))
          /\ WF_vars(Task_drop_permit(h) \/ Task_drop_handler(h))
          /\ SF_vars(Run_shutdown(h))
          /\ SF_vars(Sub_shutdown(h))

SpecServerFair == InitServer /\ [][NextServer]_vars /\ FairServer

(***************************************************************************)
(* SpecAdmit: the admission of connections while the server runs: the      *)
(* listener, and handlers that answer PING and end when the peer closes,   *)
(* when read_frame fails or when a frame is no command.  No shutdown is    *)
(* signalled and accept does not fail.  FairAdmit: a spawned task that     *)
(* can go on is scheduled, acquire_owned completes when the semaphore has  *)
(* a permit, and a connection is pending whenever the listener accepts     *)
(* (as long as a connection of Conns is left).                             *)
(***************************************************************************)
NextAdmit ==
    \/ Listener_acquire
    \/ \E h \in Conns : Listener_accept(h)
    \/ \E h \in Conns, i \in DOMAIN SrvFrames :
          \/ Ping_apply(h, SrvFrames[i], SrvCmds[i])
          \/ Run_bad_frame(h, SrvFrames[i], SrvCmds[i])
    \/ \E h \in Conns :
          \/ Run_closed(h)
          \/ Run_read_err(h)
          \/ Write(h)
          \/ Task_drop_permit(h)
          \/ Task_drop_handler(h)

SpecAdmit == InitServer /\ [][NextAdmit]_vars

FairAdmit ==
    /\ WF_vars(Listener_acquire)
    /\ WF_vars(\E h \in Conns : Listener_accept(h))
    /\ \A h \in Conns : WF_vars(Task_drop_permit(h) \/ Task_drop_handler(h))

SpecAdmitFair == InitServer /\ [][NextAdmit]_vars /\ FairAdmit

(***************************************************************************)
(* Claims about the key/value commands (checked under Spec).               *)
(***************************************************************************)
\* Connection h reads a frame in this step: read_frame returns it and the
\* command it holds is applied.
ReadsFrame(h) == pc[h] = "read" /\ cur[h] = None /\ cur'[h] # None

\* The command of the frame h reads in this step.
CmdRead(h) == from_frame(cur'[h][1])

\* C1 as claimed: for every SET of key k with value v that the server accepts
\* on a connection, a GET of k issued as the very next command on that
\* connection returns Bulk(v).
C1_SetThenGet ==
    [][\A h \in Conns :
          (/\ ReadsFrame(h)
           /\ CmdRead(h).kind = "get"
           /\ prev_set[h] # None
           /\ prev_set[h][1].key = CmdRead(h).key)
          => out_frame'[h] = Some(Bulk(prev_set[h][1].value))]_vars

\* C1 as amended: the GET returns Bulk(v) provided no other connection's SET
\* of k was applied after that SET and the SET carried no TTL or its TTL has
\* not elapsed when the GET is processed.
C1_SetThenGetUndisturbed ==
    [][\A h \in Conns :
          (/\ ReadsFrame(h)
           /\ CmdRead(h).kind = "get"
           /\ prev_set[h] # None
           /\ prev_set[h][1].key = CmdRead(h).key
           /\ last_set[CmdRead(h).key].by = h
           /\ \/ last_set[CmdRead(h).key].when = None
              \/ now < last_set[CmdRead(h).key].when[1])
          => out_frame'[h] = Some(Bulk(prev_set[h][1].value))]_vars

\* A GET that follows the connection's own undisturbed SET with a TTL that
\* has not elapsed is being answered with the value set.
C1_Witness ==
    \E h \in Conns :
       /\ pc[h] = "write"
       /\ cur[h] # None
       /\ from_frame(cur[h][1]).kind = "get"
       /\ prev_set[h] = Some([key |-> k1, value |-> v2])
       /\ last_set[k1].by = h
       /\ last_set[k1].when # None
       /\ now < last_set[k1].when[1]
       /\ out_frame[h] = Some(Bulk(v2))

\* C2 as claimed: for every SET of k with a TTL t that is not overwritten, a
\* GET of k processed once t has elapsed returns Null and a GET of k
\* processed before returns the stored value.
C2_TtlGet ==
    [][\A h \in Conns :
          (/\ ReadsFrame(h)
           /\ CmdRead(h).kind = "get"
           /\ CmdRead(h).key \in DOMAIN last_set
           /\ last_set[CmdRead(h).key].when # None)
          => IF now >= last_set[CmdRead(h).key].when[1]
             THEN out_frame'[h] = Some(Null)
             ELSE out_frame'[h] = Some(Bulk(last_set[CmdRead(h).key].value))]_vars

\* C16: a GET of key k is answered with Null exactly when k is not in
\* entries, which is the case only if no SET of k was applied or the TTL of
\* the last one has elapsed (the reaper has removed k), and otherwise with
\* Bulk of the value of the most recently applied SET of k; the GET changes
\* neither entries nor expirations nor pub_sub.
C16_GetReturnsLastSet ==
    [][\A h \in Conns :
          (ReadsFrame(h) /\ CmdRead(h).ok /\ CmdRead(h).kind = "get")
          => LET k == CmdRead(h).key
             IN /\ (out_frame'[h] = Some(Null)) <=> (k \notin DOMAIN entries)
                /\ k \in DOMAIN entries
                   => /\ k \in DOMAIN last_set
                      /\ out_frame'[h] = Some(Bulk(last_set[k].value))
                /\ k \notin DOMAIN entries
                   => \/ k \notin DOMAIN last_set
                      \/ /\ last_set[k].when # None
                         /\ now >= last_set[k].when[1]
                /\ UNCHANGED <<entries, expirations, pub_sub>>]_vars

\* A GET of k1 that follows a SET of k1 on the same connection is being
\* answered with Null: the reaper has removed the key in between.
C16_Witness ==
    \E h \in Conns :
       /\ pc[h] = "write"
       /\ cur[h] # None
       /\ from_frame(cur[h][1]).kind = "get"
       /\ from_frame(cur[h][1]).key = k1
       /\ prev_set[h] # None
       /\ prev_set[h][1].key = k1
       /\ k1 \in DOMAIN last_set
       /\ k1 \notin DOMAIN entries
       /\ out_frame[h] = Some(Null)

\* The pairs of key in the expirations set.
PairsOf(key) == {p \in expirations : p[2] = key}

\* C17: a SET discards the previous TTL of its key.  When the most recently
\* applied SET of k carried no TTL, k is in entries with that SET's value
\* and no pair of k is in expirations, whatever TTL an earlier SET carried
\* and however far the clock has advanced; when it carried a TTL, k has
\* that SET's value and its instant is the only one in expirations for k,
\* and k is absent only once that instant is reached.
C17_SetDiscardsPreviousTtl ==
    \A k \in DOMAIN last_set :
       IF last_set[k].when = None
       THEN /\ k \in DOMAIN entries
            /\ entries[k] = Entry(last_set[k].value, None)
            /\ PairsOf(k) = {}
       ELSE IF k \in DOMAIN entries
            THEN /\ entries[k] = Entry(last_set[k].value, last_set[k].when)
                 /\ PairsOf(k) = {<<last_set[k].when[1], k>>}
            ELSE /\ now >= last_set[k].when[1]
                 /\ PairsOf(k) = {}

\* The reaper sleeps until instant 1000, the expiry SET k1 v2 EX 1 had set,
\* the clock has reached 1000 and the most recently applied SET of k1 is
\* SET k1 v1 without a TTL: k1 is held with v1 and no expiry, and no pair
\* is left for the reaper.
C17_Witness ==
    /\ purge_when = Some(1000)
    /\ now >= 1000
    /\ k1 \in DOMAIN last_set
    /\ last_set[k1].when = None
    /\ k1 \in DOMAIN entries
    /\ entries[k1] = Entry(v1, None)
    /\ expirations = {}

\* C22: on a connection in the normal sub-state the commands are applied
\* in the order in which their frames are read and each is answered before
\* the next is read.  A frame is read only while no command is in progress
\* and nothing is being written, and the step that reads it applies it and
\* prepares its response; a command is over only when that response has
\* been written, and then the next frame is read; entries changes only in
\* a step of the reaper or in the step in which a SET is read, which stores
\* that SET's value.
C22_OneCommandAtATime ==
    [][/\ \A h \in Conns :
             /\ (cur'[h] # cur[h])
                => \/ /\ cur[h] = None
                      /\ pc[h] = "read"
                      /\ out_frame[h] = None
                      /\ out_frame'[h] # None
                      /\ pc'[h] \in {"write", "notify"}
                   \/ /\ cur[h] # None
                      /\ cur'[h] = None
                      /\ pc[h] = "write"
                      /\ out_frame[h] # None
                      /\ out_frame'[h] = None
                      /\ pc'[h] = "read"
             /\ (out_frame'[h] # out_frame[h]) => (cur'[h] # cur[h])
             /\ (pc[h] = "notify" /\ pc'[h] # "notify") => pc'[h] = "write"
       /\ (entries' # entries)
          => \/ purge_pc = "purge" /\ purge_pc' # "purge"
             \/ \E h \in Conns :
                   /\ ReadsFrame(h)
                   /\ CmdRead(h).ok
                   /\ CmdRead(h).kind = "set"
                   /\ out_frame'[h] = Some(Simple(s_OK))
                   /\ entries'[CmdRead(h).key].data = CmdRead(h).value]_vars

\* A connection has been answered its SET k1 v2 EX 1, has read GET k1 next
\* and is being written Bulk(v2), its own SET being the last one applied.
C22_Witness ==
    \E h \in Conns :
       /\ pc[h] = "write"
       /\ cur[h] = Some(KvFrames[1])
       /\ prev_set[h] = Some([key |-> k1, value |-> v2])
       /\ last_set[k1].by = h
       /\ last_set[k1].when = Some(1000)
       /\ out_frame[h] = Some(Bulk(v2))

\* The name of the frame h reads is a string that, lower-cased, is none of
\* the supported commands.
SupportedNames == {s_get, s_set, s_publish, s_subscribe, s_unsubscribe, s_ping}

UnsupportedName(frame) ==
    /\ frame.t = "Array"
    /\ frame.v # <<>>
    /\ Head(frame.v).t \in {"Simple", "Bulk"}
    /\ to_lowercase(SentName(frame)) \notin SupportedNames

C3_PublishCount ==
    [][\A p \in Conns :
          (ReadsFrame(p) /\ CmdRead(p).kind = "publish")
          => out_frame'[p] =
                Some(Integer(Cardinality({h \in Conns : Subscribed(h, CmdRead(p).key)})))]_vars

IsPrefix(a, b) == Len(a) <= Len(b) /\ a = SubSeq(b, 1, Len(a))

\* The payloads of channel key that h has received from the channel and not
\* written yet.
Pending(h, key) ==
    LET i == CHOOSE j \in DOMAIN subscriptions[h] : subscriptions[h][j].key = key
    IN subscriptions[h][i].q

\* C4 as claimed: a connection subscribed to c that does not lag is written
\* each payload published to c while it is subscribed exactly once and in
\* publish order, whatever SUBSCRIBE commands it issues: what it has been
\* written is a prefix of what was published, and all of it once the
\* connection waits with nothing left to read from the channel.
C4_EachPayloadOnceInOrder ==
    \A h \in Conns : \A c \in DOMAIN sent[h] :
       (HoldsInMap(h, c) /\ c \notin lagged[h])
       => /\ IsPrefix(got[h][c], sent[h][c])
          /\ (InSelect(h) /\ Pending(h, c) = <<>>) => got[h][c] = sent[h][c]

\* The command h is executing is an UNSUBSCRIBE that names no channel or
\* names every channel h is still subscribed to.
UnsubscribesAll(h) ==
    /\ cur[h] # None
    /\ from_frame(cur[h][1]).kind = "unsubscribe"
    /\ \/ from_frame(cur[h][1]).channels = <<>>
       \/ \A i \in DOMAIN subscriptions[h] :
             \E j \in DOMAIN from_frame(cur[h][1]).channels :
                from_frame(cur[h][1]).channels[j] = subscriptions[h][i].key

\* C5: when an UNSUBSCRIBE of all channels writes its last acknowledgement
\* the subscription map is empty and the acknowledgement carries count 0;
\* a PUBLISH applied while a subscribed-state connection holds no receiver
\* counts only the receivers of the other connections and leaves that
\* connection's map empty, and no message frame is written to it.
C5_UnsubscribeAll ==
    [][\A h \in Conns :
          /\ (pc[h] = "unsub" /\ Len(unsub_list[h]) = 1 /\ UnsubscribesAll(h)
              /\ pc'[h] = "write")
             => /\ subscriptions'[h] = <<>>
                /\ out_frame'[h] =
                      Some(make_unsubscribe_frame(Head(unsub_list[h]), 0))
          /\ (pc[h] = "loop" /\ subscriptions[h] = <<>> /\ rx[h] = None)
             => /\ \A p \in Conns :
                      (ReadsFrame(p) /\ CmdRead(p).kind = "publish")
                      => /\ out_frame'[p] = Some(Integer(
                               Cardinality({s \in Conns \ {h} :
                                              HoldsInMap(s, CmdRead(p).key)})
                               + Cardinality({s \in Conns \ {h} :
                                                HoldsFresh(s, CmdRead(p).key)})))
                         /\ subscriptions'[h] = <<>>
                /\ ~(out_frame'[h] # None /\ IsMessageFrame(out_frame'[h][1]))]_vars

\* A connection that had subscribed has unsubscribed from everything and
\* waits in the subscribed sub-state while a PUBLISH to its former channel
\* is answered with 0.
C5_Witness ==
    \E h \in Conns, p \in Conns :
       /\ pc[h] = "loop" /\ channels[h] = <<>>
       /\ subscriptions[h] = <<>>
       /\ ch_a \in pub_sub
       /\ \A s \in Conns \ {h} : pc[s] # "loop" /\ subscriptions[s] = <<>>
       /\ pc[p] = "write"
       /\ cur[p] # None
       /\ from_frame(cur[p][1]).kind = "publish"
       /\ from_frame(cur[p][1]).key = ch_a
       /\ out_frame[p] = Some(Integer(0))

\* Connection h, in the select! of the subscribed sub-state, reads a frame
\* that is answered.
SubReadsFrame(h) == InSelect(h) /\ cur[h] = None /\ cur'[h] # None

\* C10 as claimed: in the subscribed sub-state every well-formed command
\* other than SUBSCRIBE and UNSUBSCRIBE is answered with
\* Error("ERR unknown command '<name>'"), <name> being the lower-cased name
\* the client sent.
C10_RejectedWhileSubscribed ==
    [][\A h \in Conns :
          (/\ SubReadsFrame(h)
           /\ CmdRead(h).ok
           /\ CmdRead(h).kind \notin {"subscribe", "unsubscribe"})
          => out_frame'[h] =
                Some(Error(UnknownText(to_lowercase(SentName(cur'[h][1])))))]_vars

\* The error reply to a command read in the subscribed sub-state is being
\* written to h.
RejectedInSub(h) ==
    /\ pc[h] = "write"
    /\ ret[h] = "loop"
    /\ cur[h] # None
    /\ out_frame[h] # None
    /\ out_frame[h][1].t = "Error"

\* C11: a command rejected in the subscribed sub-state has no effect.  The
\* step that rejects it leaves entries, expirations, pub_sub, the
\* connection's subscription map and its receivers as they were; while the
\* reply is written the map keeps its channels and each of its receivers
\* either is untouched or takes the payload a PUBLISH sends to it; and when
\* the reply is written the handler is back in the select! that delivers
\* them.
C11_RejectedHasNoEffect ==
    [][\A h \in Conns :
          /\ (/\ SubReadsFrame(h)
              /\ CmdRead(h).ok
              /\ CmdRead(h).kind \notin {"subscribe", "unsubscribe"})
             => /\ UNCHANGED <<entries, expirations, pub_sub>>
                /\ subscriptions'[h] = subscriptions[h]
                /\ rx'[h] = rx[h]
                /\ RejectedInSub(h)'
          /\ RejectedInSub(h)
             => /\ UNCHANGED <<entries, expirations>>
                /\ StreamMap_keys(subscriptions'[h]) = StreamMap_keys(subscriptions[h])
                /\ \A i \in DOMAIN subscriptions[h] :
                      \/ subscriptions'[h][i].q = subscriptions[h][i].q
                      \/ \E n \in 0..MaxPublish :
                            subscriptions'[h][i].q =
                               Retain(Append(subscriptions[h][i].q, Payload(n)))
                /\ pc'[h] # pc[h] => InSelect(h)']_vars

\* The reply to a SET rejected in the subscribed sub-state is being written
\* to a connection subscribed to ch_a; nothing was stored, and its receiver
\* holds a payload published to ch_a that is still to be delivered.
C11_Witness ==
    \E h \in Conns :
       /\ RejectedInSub(h)
       /\ from_frame(cur[h][1]).kind = "set"
       /\ entries = EmptyMap
       /\ HoldsInMap(h, ch_a)
       /\ Pending(h, ch_a) # <<>>
       /\ sent[h][ch_a] # <<>>

\* The channels connection h is subscribed to.
SubscribedTo(h) == {subscriptions[h][i].key : i \in DOMAIN subscriptions[h]}

IsSubscribeAck(frame) ==
    frame.t = "Array" /\ Len(frame.v) = 3 /\ frame.v[1] = Bulk(s_subscribe)

\* C12: every SUBSCRIBE, in the normal or in the subscribed sub-state, is
\* acknowledged once per channel argument and in argument order.  Its
\* arguments become the list of channels to subscribe to and nothing is
\* written in that step; while the list is not empty the handler does
\* nothing but take its first channel, insert it in the subscription map
\* and write ["subscribe", channel, n], n being the number of channels the
\* connection is subscribed to once the channel is in the map; after the
\* write it goes on with the rest of the list.
C12_SubscribeAcks ==
    [][\A h \in Conns :
          /\ (channels[h] = <<>> /\ channels'[h] # <<>>)
             => /\ \E i \in DOMAIN PsFrames(0) :
                      /\ PsCmds[0][i].ok
                      /\ PsCmds[0][i].kind = "subscribe"
                      /\ channels'[h] = PsCmds[0][i].channels
                /\ pc'[h] = "loop"
                /\ out_frame'[h] = None
          /\ (pc[h] = "loop" /\ channels[h] # <<>>)
             => /\ out_frame'[h] = None
                /\ \/ pc'[h] = "loop" /\ channels'[h] = channels[h]
                   \/ /\ pc'[h] = "insert"
                      /\ rx'[h] # None
                      /\ rx'[h][1].key = Head(channels[h])
                      /\ channels'[h] = Tail(channels[h])
          /\ (pc[h] = "insert" /\ pc'[h] # "insert")
             => /\ pc'[h] = "write"
                /\ rx[h][1].key \in SubscribedTo(h)'
                /\ out_frame'[h] =
                      Some(make_subscribe_frame(rx[h][1].key,
                                                Cardinality(SubscribedTo(h)')))
                /\ channels'[h] = channels[h]
          /\ (/\ pc[h] = "write"
              /\ out_frame[h] # None
              /\ IsSubscribeAck(out_frame[h][1])
              /\ pc'[h] # "write")
             => /\ pc'[h] = "loop"
                /\ channels'[h] = channels[h]
                /\ subscriptions'[h] = subscriptions[h]]_vars

\* The second acknowledgement of SUBSCRIBE b a is being written: the
\* connection is subscribed to both channels and no argument is left.
C12_Witness ==
    \E h \in Conns :
       /\ pc[h] = "write"
       /\ channels[h] = <<>>
       /\ StreamMap_keys(subscriptions[h]) = <<ch_b, ch_a>>
       /\ out_frame[h] = Some(make_subscribe_frame(ch_a, 2))

IsUnsubscribeAck(frame) ==
    frame.t = "Array" /\ Len(frame.v) = 3 /\ frame.v[1] = Bulk(s_unsubscribe)

\* C13: an UNSUBSCRIBE read in the subscribed sub-state is acknowledged
\* once per channel it names or, when it names none, once per channel the
\* connection is subscribed to.  The channels to acknowledge are its
\* arguments, or a listing without repetition of the subscribed channels;
\* the handler then does nothing but remove the first of them from the
\* subscription map and write ["unsubscribe", channel, n], n being the
\* number of channels still subscribed after the removal, and after the
\* write it goes on with the rest, back to the select! when none is left.
C13_UnsubscribeAcks ==
    [][\A h \in Conns :
          /\ (pc[h] = "loop" /\ pc'[h] = "unsub")
             => /\ InSelect(h)
                /\ cur'[h] # None
                /\ CmdRead(h).ok
                /\ CmdRead(h).kind = "unsubscribe"
                /\ out_frame'[h] = None
                /\ subscriptions'[h] = subscriptions[h]
                /\ IF CmdRead(h).channels # <<>>
                   THEN unsub_list'[h] = CmdRead(h).channels
                   ELSE /\ Len(unsub_list'[h]) = Cardinality(SubscribedTo(h))
                        /\ {unsub_list'[h][i] : i \in DOMAIN unsub_list'[h]}
                              = SubscribedTo(h)
          /\ (pc[h] = "unsub" /\ pc'[h] # "unsub")
             => /\ unsub_list[h] # <<>>
                /\ pc'[h] = "write"
                /\ SubscribedTo(h)' = SubscribedTo(h) \ {Head(unsub_list[h])}
                /\ out_frame'[h] =
                      Some(make_unsubscribe_frame(Head(unsub_list[h]),
                                                  Cardinality(SubscribedTo(h)')))
                /\ unsub_list'[h] = Tail(unsub_list[h])
          /\ (/\ pc[h] = "write"
              /\ out_frame[h] # None
              /\ IsUnsubscribeAck(out_frame[h][1])
              /\ pc'[h] # "write")
             => /\ pc'[h] = (IF unsub_list[h] = <<>> THEN "loop" ELSE "unsub")
                /\ unsub_list'[h] = unsub_list[h]
                /\ subscriptions'[h] = subscriptions[h]]_vars

\* An UNSUBSCRIBE that names no channel, read by a connection subscribed to
\* two channels: the first acknowledgement, with count 1, is being written
\* and one channel is left to acknowledge.
C13_Witness ==
    \E h \in Conns :
       /\ pc[h] = "write"
       /\ cur[h] # None
       /\ from_frame(cur[h][1]).kind = "unsubscribe"
       /\ from_frame(cur[h][1]).channels = <<>>
       /\ Len(unsub_list[h]) = 1
       /\ SubscribedTo(h) = {unsub_list[h][1]}
       /\ \E c \in {ch_a, ch_b} : out_frame[h] = Some(make_unsubscribe_frame(c, 1))

\* C14: a message frame for channel c is written to a connection only
\* while c is in its subscription map, and its payload is one that was
\* published to c while the connection was subscribed to c: a payload
\* published to a channel it never subscribed to, or published to c before
\* it subscribed or after it unsubscribed, is never written to it.
C14_MessagesOnlyWhenSubscribed ==
    \A h \in Conns :
       (pc[h] = "write" /\ out_frame[h] # None /\ IsMessageFrame(out_frame[h][1]))
       => LET c == out_frame[h][1].v[2].v
              m == out_frame[h][1].v[3].v
          IN /\ out_frame[h][1].v[2].t = "Bulk"
             /\ out_frame[h][1].v[3].t = "Bulk"
             /\ HoldsInMap(h, c)
             /\ c \in DOMAIN sent[h]
             /\ \E i \in DOMAIN sent[h][c] : sent[h][c][i] = m

\* The second payload published to ch_a is being written to a connection
\* that is subscribed to ch_a and to ch_b and had subscribed to ch_a after
\* the first one was published.
C14_Witness ==
    \E h \in Conns :
       /\ pc[h] = "write"
       /\ out_frame[h] = Some(make_message_frame(ch_a, Payload(1)))
       /\ SubscribedTo(h) = {ch_a, ch_b}
       /\ sent[h][ch_a] = <<Payload(1)>>

\* C15: a PUBLISH to a channel that has no Sender in pub_sub, or whose
\* receivers have all been dropped, is answered with Integer(0) and changes
\* nothing: pub_sub gets no entry, entries and expirations are untouched
\* and no connection's receivers take the payload.
C15_PublishToNobody ==
    [][\A p \in Conns :
          (/\ ReadsFrame(p)
           /\ CmdRead(p).ok
           /\ CmdRead(p).kind = "publish"
           /\ \/ CmdRead(p).key \notin pub_sub
              \/ \A s \in Conns : ~Subscribed(s, CmdRead(p).key))
          => /\ out_frame'[p] = Some(Integer(0))
             /\ UNCHANGED <<entries, expirations, pub_sub, subscriptions, rx>>]_vars

\* A PUBLISH to ch_a is being answered with 0 while pub_sub has no Sender
\* at all.
C15_Witness ==
    \E p \in Conns :
       /\ pc[p] = "write"
       /\ cur[p] # None
       /\ from_frame(cur[p][1]).kind = "publish"
       /\ from_frame(cur[p][1]).key = ch_a
       /\ pub_sub = {}
       /\ out_frame[p] = Some(Integer(0))

(***************************************************************************)
(* Claims about the listener and shutdown (checked under SpecServer and    *)
(* SpecServerFair).                                                        *)
(***************************************************************************)
\* Handler::run of connection h has returned.
Ended(h) == pc[h] \in {"returned", "dropping", "gone"}

\* C18: an UNSUBSCRIBE read in the normal sub-state is an error.  The step
\* that reads it makes Handler::run return an error without a response
\* frame and leaves entries, expirations and pub_sub unchanged; and a
\* handler that has returned never reads or writes again, its task only
\* releases the permit and drops the Handler with the connection.
C18_UnsubscribeInNormalState ==
    [][\A h \in Conns :
          /\ (/\ ReadsFrame(h)
              /\ CmdRead(h).ok
              /\ CmdRead(h).kind = "unsubscribe")
             => /\ pc'[h] = "returned"
                /\ result'[h] = "err"
                /\ out_frame'[h] = None
                /\ UNCHANGED <<entries, expirations, pub_sub>>
          /\ Ended(h)
             => /\ Ended(h)'
                /\ out_frame'[h] = None
                /\ result'[h] = result[h]
                /\ pc'[h] # pc[h]
                   => \/ pc[h] = "returned" /\ pc'[h] = "dropping"
                      \/ pc[h] = "dropping" /\ pc'[h] = "gone"]_vars

\* Handler::run of a connection has returned an error on the UNSUBSCRIBE
\* frame, while another connection has subscribed to ch_a.
C18_Witness ==
    \E h \in Conns :
       /\ pc[h] = "returned"
       /\ result[h] = "err"
       /\ cur[h] = Some(SrvFrames[3])
       /\ SrvCmds[3].ok
       /\ SrvCmds[3].kind = "unsubscribe"
       /\ pub_sub = {ch_a}

\* The sleeps of Listener::accept, in seconds, in the order in which one
\* call takes them.
BackoffSleeps == <<1, 2, 4, 8, 16, 32, 64>>

\* An accept fails in this step.
AcceptFails == listener_pc = "accept" /\ accept_failures' = accept_failures + 1

\* What C19 says of the sleeps and of the backoff of the next call: the
\* n-th consecutive failure of a call that does not surface the error is
\* followed by the n-th sleep of 1, 2, 4, 8, 16, 32, 64 seconds and by
\* another attempt of the same call, and a call starts with a backoff of 1
\* second and no failure, whatever the previous call went through.
BackoffSchedule ==
    /\ (AcceptFails /\ listener_pc' = "sleep")
       => /\ accept_failures' \in DOMAIN BackoffSleeps
          /\ backoff = BackoffSleeps[accept_failures']
          /\ backoff' = backoff
    /\ (listener_pc = "sleep" /\ listener_pc' # "sleep")
       => \/ listener_pc' = "accept" /\ accept_failures' = accept_failures
          \/ listener_pc' = "dropped"
    /\ (listener_pc = "acquire" /\ listener_pc' = "accept")
       => backoff' = 1 /\ accept_failures' = 0

Alive == {h \in Conns : pc[h] \notin {"none", "gone"}}

\* The handler tasks that have not released their permit.
Admitted == {h \in Conns : pc[h] \notin {"none", "dropping", "gone"}}

\* C6 as claimed: at most MAX_CONNECTIONS handler tasks are alive at the
\* same time.
C6_AliveAtMostMax == Cardinality(Alive) <= MAX_CONNECTIONS

\* C6 as amended: at most MAX_CONNECTIONS handler tasks have not yet
\* released their permit (the task releases it after handler.run has
\* returned and before its Handler is dropped), each of them holds one, and
\* with MAX_CONNECTIONS of them the semaphore is empty, so that the listener
\* accepts no further connection until one of them releases its permit.
C6_AdmittedAtMostMax ==
    /\ Cardinality(Admitted) <= MAX_CONNECTIONS
    /\ Admitted = permit
    /\ permits + ListenerPermit + Cardinality(permit) = MAX_CONNECTIONS
    /\ Cardinality(Admitted) = MAX_CONNECTIONS => listener_pc \notin {"accept", "sleep"}

\* MAX_CONNECTIONS handlers are running and the listener waits for a permit.
C6_Witness ==
    /\ Cardinality({h \in Conns : pc[h] \in {"read", "loop", "write"}}) = MAX_CONNECTIONS
    /\ listener_pc = "acquire"
    /\ permits = 0

\* C7: server::run returns only after every handler ever spawned has ended
\* and been dropped.
C7_RunReturnsAfterHandlers ==
    run_pc \in {"guard", "done"} => Alive = {}

\* run has returned after handlers were spawned and one of them saw the
\* shutdown.
C7_Witness ==
    /\ run_pc = "done"
    /\ \E h \in Conns : pc[h] = "gone" /\ is_shutdown[h]
    /\ \E h \in Conns : pc[h] = "gone" /\ result[h] = "err"

\* C8 as claimed: once the shutdown signal has fired every live handler,
\* in the normal or in the subscribed sub-state, eventually returns and
\* server::run eventually returns.
C8_ShutdownCompletes ==
    /\ \A h \in Conns :
          (~notify_shutdown /\ h \in Admitted)
             ~> (pc[h] \in {"returned", "dropping", "gone"})
    /\ (~notify_shutdown) ~> (run_pc \in {"guard", "done"})

(***************************************************************************)
(* Claims about the errors of a connection (checked under SpecKvErr).      *)
(***************************************************************************)
\* Handler::run of connection h returns an error in this step.
Fails(h) == result[h] = "" /\ result'[h] = "err"

MaxChildren(name) ==
    CASE name = s_get -> 2
      [] name = s_publish -> 3
      [] name = s_ping -> 2
      [] name = s_set -> 5

\* The frame names GET, SET, PUBLISH or PING and has more children than the
\* command takes.
LeftOver(frame) ==
    /\ frame.t = "Array"
    /\ frame.v # <<>>
    /\ Head(frame.v).t \in {"Simple", "Bulk"}
    /\ to_lowercase(SentName(frame)) \in {s_get, s_set, s_publish, s_ping}
    /\ Len(frame.v) > MaxChildren(to_lowercase(SentName(frame)))

\* C21: a GET, SET, PUBLISH or PING frame with a child left after the
\* command's arguments is no command: Command::from_frame fails, the
\* handler returns an error without a response, and entries, expirations
\* and pub_sub are unchanged.  A frame with an unsupported name is answered
\* with the Unknown error whatever children follow the name, and the
\* handler goes on.
C21_LeftOverChild ==
    [][\A h \in Conns :
          /\ (ReadsFrame(h) /\ LeftOver(cur'[h][1]))
             => /\ ~CmdRead(h).ok
                /\ pc'[h] = "returned"
                /\ result'[h] = "err"
                /\ out_frame'[h] = None
                /\ UNCHANGED <<entries, expirations, pub_sub>>
          /\ (ReadsFrame(h) /\ UnsupportedName(cur'[h][1]) /\ Len(cur'[h][1].v) > 1)
             => /\ pc'[h] = "write"
                /\ result'[h] = ""
                /\ out_frame'[h] =
                      Some(Error(UnknownText(to_lowercase(SentName(cur'[h][1])))))]_vars

\* The handler of a connection has returned an error on SET k1 v1 EX 1 with
\* one more child, and k1 is not in entries; the other connection is being
\* answered the Unknown error for Getx k1 v1.
C21_Witness ==
    \E h \in Conns, g \in Conns :
       /\ pc[h] = "returned"
       /\ result[h] = "err"
       /\ cur[h] = Some(ErrFrames[1])
       /\ k1 \notin DOMAIN entries
       /\ pc[g] = "write"
       /\ cur[g] = Some(KvFrames[6])
       /\ out_frame[g] = Some(Error(UnknownText(<<"g","e","t","x">>)))

(***************************************************************************)
(* Claims about the Mutex of the database (checked under SpecDbLock, where *)
(* last_set is the last SET that has completed).                           *)
(***************************************************************************)
\* The pair expirations should hold for key, given its entry.
PairOfEntry(key) ==
    IF key \in DOMAIN entries /\ entries[key].expires_at # None
    THEN {<<entries[key].expires_at[1], key>>}
    ELSE {}

\* C23: a GET that runs while another connection's SET of the same key is
\* in progress observes the state before that SET or the state after it.
\* What the GET finds for its key is the entry, value and expiry, of the
\* last SET of the key that has completed, or no entry at all, and the
\* pairs of the key in expirations agree with that entry; its reply is the
\* value of that SET, or Null.
C23_GetSeesWholeSets ==
    [][\A h \in Conns :
          (ReadsFrame(h) /\ CmdRead(h).ok /\ CmdRead(h).kind = "get")
          => LET k == CmdRead(h).key
             IN /\ PairsOf(k) = PairOfEntry(k)
                /\ IF k \in DOMAIN entries
                   THEN /\ k \in DOMAIN last_set
                        /\ entries[k] = Entry(last_set[k].value, last_set[k].when)
                        /\ out_frame'[h] = Some(Bulk(last_set[k].value))
                   ELSE out_frame'[h] = Some(Null)]_vars

\* A GET of k1 is being answered with v1, the value before the SET k1 v2
\* EX 1 of the other connection, which has inserted its entry and is about
\* to insert its pair.
C23_Witness ==
    \E h \in Conns, g \in Conns :
       /\ g # h
       /\ pc[h] = "write"
       /\ cur[h] = Some(KvFrames[1])
       /\ out_frame[h] = Some(Bulk(v1))
       /\ pc[g] = "set_track"
       /\ mutex = Some(g)
       /\ set_local[g][1].key = k1
       /\ entries[k1] = Entry(v2, Some(1000))
       /\ expirations = {}

\* C25: whenever the Mutex is free, after any interleaving of SETs and
\* purges, a pair (t, k) is in expirations if and only if entries holds k
\* with expires_at = t, and therefore no two pairs carry the same key.
C25_ExpirationsMatchEntries ==
    mutex = None
    => /\ \A p \in expirations :
             /\ p[2] \in DOMAIN entries
             /\ entries[p[2]].expires_at = Some(p[1])
       /\ \A k \in DOMAIN entries :
             entries[k].expires_at # None
             => <<entries[k].expires_at[1], k>> \in expirations
       /\ \A p \in expirations : \A q \in expirations : p[2] = q[2] => p = q

\* The Mutex is free after SET k1 v2 EX 1 has replaced the entry of a SET
\* with PX 1, for whose expiry the reaper still sleeps: the only pair is
\* the one of instant 1000.
C25_Witness ==
    /\ mutex = None
    /\ purge_pc = "sleep"
    /\ purge_when = Some(1)
    /\ k1 \in DOMAIN entries
    /\ entries[k1] = Entry(v2, Some(1000))
    /\ expirations = {<<1000, k1>>}

(***************************************************************************)
(* Claims about the admission of connections (checked under SpecAdmitFair).*)
(***************************************************************************)
\* The connections accepted so far.
Accepted == {h \in Conns : pc[h] # "none"}

\* All permits are taken by handlers, the listener waits for one in
\* acquire_owned, and the run of handler h has returned res.
FullAndEnded(h, res) ==
    /\ permits = 0
    /\ listener_pc = "acquire"
    /\ Cardinality(permit) = MAX_CONNECTIONS
    /\ pc[h] = "returned"
    /\ result[h] = res

\* C24: the task of a handler returns its permit to the semaphore when it
\* ends, whether Handler::run returned Ok or an error; so when
\* MAX_CONNECTIONS handlers hold the permits and one of them ends, the
\* listener eventually accepts one more connection.
C24_PermitReturned ==
    /\ [][\A h \in Conns :
             (pc[h] = "returned" /\ pc'[h] # "returned")
             => /\ h \in permit
                /\ permit' = permit \ {h}
                /\ permits' = permits + 1]_vars
    /\ \A h \in Conns : \A res \in {"ok", "err"} :
          \A n \in 0..(Cardinality(Conns) - 1) :
             (FullAndEnded(h, res) /\ Cardinality(Accepted) = n)
             ~> (Cardinality(Accepted) > n)

\* The third connection is served although both permits were taken: the
\* first handler has ended with an error and its task is gone.
C24_Witness ==
    /\ pc[1] = "gone"
    /\ result[1] = "err"
    /\ pc[2] \in {"read", "write"}
    /\ pc[3] = "read"
    /\ permit = {2, 3}
    /\ permits = 0

(***************************************************************************)
(* Claims about the reaper (checked under SpecReaperFair).                 *)
(***************************************************************************)
\* entries holds key with expires_at = t.
ExpiresAt(key, t) == key \in DOMAIN entries /\ entries[key].expires_at = Some(t)

\* The instants at which an entry of the model can expire.
Deadlines == {i + e : i \in Instants, e \in {1, MillisPerSec}}

\* C26: an entry with expires_at = t is, once the clock has reached t,
\* eventually removed from entries and from expirations by the reaper,
\* unless it is overwritten or the database is shut down.
C26_ExpiredIsPurged ==
    \A t \in Deadlines :
       (ExpiresAt(k1, t) /\ now >= t)
       ~> \/ k1 \notin DOMAIN entries /\ <<t, k1>> \notin expirations
          \/ k1 \in DOMAIN entries /\ entries[k1].expires_at # Some(t)
          \/ shutdown

\* The reaper has removed the entry of k1, whose last SET carried the
\* expiry 1, after the clock has reached 1; no shutdown has begun.
C26_Witness ==
    /\ k1 \notin DOMAIN entries
    /\ expirations = {}
    /\ k1 \in DOMAIN last_set
    /\ last_set[k1].when = Some(1)
    /\ now >= 1
    /\ purge_pc = "wait"
    /\ ~shutdown
    /\ run_pc = "select"

\* C27: once shutdown_purge_task has set the flag, the reaper returns at
\* some time, whether it was about to purge, asleep until a deadline or
\* waiting to be notified, and from then on no entry and no pair is removed.
C27_ReaperTerminates ==
    /\ shutdown ~> (purge_pc = "done")
    /\ [][shutdown => (entries' = entries /\ expirations' = expirations)]_vars

\* The flag has been set while the reaper sleeps until the deadline 1000,
\* which the clock has not reached; the entry it sleeps for is there.
C27_Witness ==
    /\ shutdown
    /\ purge_pc = "sleep"
    /\ purge_when = Some(1000)
    /\ now < 1000
    /\ ExpiresAt(k1, 1000)
    /\ expirations = {<<1000, k1>>}

(***************************************************************************)
(* Claims about slow subscribers and the subscribed sub-state (checked     *)
(* under SpecPubSub).                                                      *)
(***************************************************************************)
RECURSIVE IsSubseq(_, _)
\* a is b with some of its elements left out.
IsSubseq(a, b) ==
    IF a = <<>> THEN TRUE
    ELSE IF b = <<>> THEN FALSE
    ELSE IF Head(a) = Head(b) THEN IsSubseq(Tail(a), Tail(b))
    ELSE IsSubseq(a, Tail(b))

IsSuffix(a, b) == Len(a) <= Len(b) /\ a = SubSeq(b, Len(b) - Len(a) + 1, Len(b))

\* The last n elements of q.
LastN(q, n) == IF Len(q) > n THEN SubSeq(q, Len(q) - n + 1, Len(q)) ELSE q

\* The payload of channel key that is being written to h, if any.
InFlight(h, key) ==
    IF pc[h] = "write" /\ out_frame[h] # None /\ IsMessageFrame(out_frame[h][1])
          /\ out_frame[h][1].v[2].v = key
    THEN <<out_frame[h][1].v[3].v>>
    ELSE <<>>

\* Connection h applies a PUBLISH in this step.
Publishes(h) == pc[h] = "read" /\ pc'[h] = "write" /\ pub_seq' = pub_seq + 1

SubState(h) ==
    \/ pc[h] \in {"loop", "insert", "unsub"}
    \/ pc[h] = "write" /\ ret[h] \in {"loop", "unsub"}

CallsSubscribe(h) == pc[h] = "loop" /\ pc'[h] = "insert"

\* C30 (checked under SpecChannels): pub_sub is empty when the database is
\* created and only grows; a step changes it only by adding the channel of
\* a Db::subscribe, every Db::subscribe leaves its channel in it, and no
\* UNSUBSCRIBE, disconnect, PUBLISH or purge removes a name: so a name is
\* in pub_sub if and only if some connection has subscribed to it before.
C30_ChannelsOnlyGrow ==
    /\ pub_sub = {}
    /\ [][/\ pub_sub \subseteq pub_sub'
          /\ pub_sub' # pub_sub
             => \E h \in Conns :
                   CallsSubscribe(h) /\ pub_sub' = pub_sub \cup {rx'[h][1].key}
          /\ \A h \in Conns : CallsSubscribe(h) => rx'[h][1].key \in pub_sub']_vars

\* Both channels are in pub_sub although no connection holds a receiver:
\* the subscriber has disconnected, a PUBLISH has been applied, and the
\* reaper has purged the entry of k1.
C30_Witness ==
    /\ pub_sub = {ch_a, ch_b}
    /\ \A h \in Conns : subscriptions[h] = <<>> /\ rx[h] = None
    /\ pc[1] = "returned"
    /\ pub_seq >= 1
    /\ k1 \in DOMAIN last_set
    /\ k1 \notin DOMAIN entries

(***************************************************************************)
(* Claims about commands and shutdown (checked under SpecCmdShutdown).     *)
(***************************************************************************)
\* Connection h is inside Command::apply of a command of the normal
\* sub-state: the frame was read and its response is not written yet.
MidCommand(h) == pc[h] \in {"notify", "write"} /\ ret[h] = "read" /\ cur[h] # None

\* C31: in the normal sub-state the step that reads a GET, SET, PUBLISH or
\* PING applies it and leaves its response to be written; from then on the
\* handler only completes the command (notify_one, write_frame) or fails
\* with an error of write_frame; it receives the shutdown signal only
\* between commands, with no frame read and no response pending.
C31_CommandCompletesBeforeShutdown ==
    [][\A h \in Conns :
          /\ (ReadsFrame(h) /\ CmdRead(h).ok
                 /\ CmdRead(h).kind \in {"get", "set", "publish", "ping"})
             => /\ MidCommand(h)'
                /\ out_frame'[h] # None
                /\ CmdRead(h).kind = "set"
                   => /\ CmdRead(h).key \in DOMAIN entries'
                      /\ entries'[CmdRead(h).key].data = CmdRead(h).value
                      /\ out_frame'[h] = Some(Simple(s_OK))
                /\ CmdRead(h).kind = "publish"
                   => /\ out_frame'[h][1].t = "Integer"
                      /\ \A s \in Conns : \A j \in DOMAIN subscriptions[s] :
                            subscriptions[s][j].key = CmdRead(h).key
                            => subscriptions'[s][j].q =
                                  LastN(Append(subscriptions[s][j].q, CmdRead(h).value),
                                        CAPACITY)
          /\ MidCommand(h)
             => /\ is_shutdown'[h] = is_shutdown[h]
                /\ \/ MidCommand(h)' /\ cur'[h] = cur[h] /\ out_frame'[h] = out_frame[h]
                   \/ pc[h] = "write" /\ pc'[h] = "read" /\ cur'[h] = None
                      /\ writable[h]
                   \/ pc[h] = "write" /\ pc'[h] = "returned" /\ result'[h] = "err"
          /\ is_shutdown'[h] # is_shutdown[h]
             => /\ ~notify_shutdown
                /\ cur[h] = None
                /\ out_frame[h] = None
                /\ pc[h] \in {"read", "loop"}]_vars

\* The shutdown signal has fired while connection 1 is answering a SET
\* whose peer has stopped reading: the entry is stored, OK is still to be
\* written, and the handler has not looked at the signal.
C31_Witness ==
    /\ ~notify_shutdown
    /\ pc[1] = "write"
    /\ ~writable[1]
    /\ cur[1] = Some(KvFrames[2])
    /\ out_frame[1] = Some(Simple(s_OK))
    /\ k1 \in DOMAIN entries
    /\ ~is_shutdown[1]

(***************************************************************************)
(* The frame codec: Frame::check against Frame::parse.                     *)
(***************************************************************************)
\* The last round of parse_frame ran Frame::check with success.
CheckSucceeded == codec_pc # "idle" /\ checked.t = "ok"

\* C32: on every buffer on which Frame::check succeeds, Frame::parse succeeds,
\* returns a frame and stops at the position at which check stopped.
C32_ParseFollowsCheck ==
    CheckSucceeded => parsed.t = "ok" /\ parsed.pos = checked.pos

\* C40: on a buffer on which Frame::check has succeeded, Frame::parse never
\* reaches its unimplemented!() arm, at top level or in an array child.
C40_ParseNeverUnimplemented ==
    CheckSucceeded => parsed.t # "panic" /\ codec_pc # "panic"

\* Both passes went through an array with a nested array as a child.
C40_Witness ==
    /\ CheckSucceeded
    /\ parsed = CurOk(Len(input), Array(<<Integer(1), Array(<<Null>>)>>))
    /\ frames = <<Array(<<Integer(1), Array(<<Null>>)>>)>>
    /\ buffer = <<>>

\* The stream is the encoding of one frame f of SampleFrames.
Encodes(f) == Len(input) = Len(encode(f)) /\ input = encode(f)

IsProperPrefix(a, b) == Len(a) < Len(b) /\ a = SubSeq(b, 1, Len(a))

\* C33: on every proper prefix of the encoding of a frame Frame::check reports
\* Incomplete, so the frame is decoded to the same Frame whatever the chunks in
\* which its bytes arrive: read_frame returns nothing and fails in no way until
\* the last byte is in, and then returns the frame that Frame::parse returns on
\* the whole encoding.
C33_ChunksDecodeAlike ==
    \A f \in SampleFrames :
        Encodes(f) =>
            /\ codec_pc \notin {"error", "reset", "panic"}
            /\ codec_pc # "parse" /\ frames = <<>> /\ IsProperPrefix(buffer, input)
                  => /\ check(buffer, 0) = Incomplete
                     /\ checked = Incomplete
                     /\ codec_pc = "read"
            /\ frames = IF wire = <<>> /\ buffer = <<>> THEN <<f>> ELSE <<>>
            /\ parse(input, 0) = CurOk(Len(input), f)

\* All but the last byte of a SET-like array of bulks have arrived, in two
\* chunks or more, and the check has run on them.
C33_Witness ==
    /\ Encodes(Array(<<Bulk(s_get), Bulk(<<"k">>)>>))
    /\ Len(wire) = 1
    /\ buffer \o wire = input
    /\ checked = Incomplete
    /\ codec_pc = "read"
    /\ frames = <<>>

(***************************************************************************)
(* The reaper's wake-ups.                                                  *)
(***************************************************************************)
\* purge_expired_tasks is suspended in its select! or in notified().await.
Suspended == purge_pc \in {"sleep", "wait"}

\* The reaper sleeps until an instant no later than the earliest expiration,
\* or waits without deadline while nothing expires and the flag is false.
WakesInTime ==
    \/ /\ purge_pc = "sleep"
       /\ purge_when # None
       /\ \A e \in expirations : purge_when[1] <= e[1]
    \/ /\ purge_pc = "wait"
       /\ expirations = {}
       /\ ~shutdown

\* A Db::set that found `notify` true, or shutdown_purge_task, has changed
\* the state and has not yet called notify_one.
NotifyToCome ==
    \/ \E h \in Conns : pc[h] = "notify"
    \/ \E h \in Conns : pc[h] = "set_drop" /\ set_local[h][1].notify
    \/ run_pc = "guard"

\* C34 as stated: whenever the reaper is suspended, the Notify holds no
\* notification and the Mutex is free, it sleeps until an instant no later than the earliest
\* expiration, or waits while expirations is empty and the flag is false.
C34_AsStated == Suspended /\ ~background_task /\ mutex = None => WakesInTime

\* C34: no missed wake-up of the reaper: whenever it is suspended, the Notify
\* holds no notification and no Db::set or shutdown_purge_task stands between
\* its change of the state and its notify_one, it sleeps until an instant no
\* later than the earliest expiration, or waits while expirations is empty and
\* the flag is false.
C34_NoMissedWakeup == Suspended /\ ~background_task /\ ~NotifyToCome => WakesInTime

\* The reaper sleeps until instant 1 and a SET has since moved the only
\* expiration to instant 1000, without a notification.
C34_Witness ==
    /\ purge_pc = "sleep"
    /\ purge_when = Some(1)
    /\ expirations = {<<1000, k1>>}
    /\ ~background_task
    /\ ~NotifyToCome
    /\ mutex = None
    /\ pc[1] = "read"

(***************************************************************************)
(* What the reaper removes.                                                *)
(***************************************************************************)
\* C35: an entry leaves `entries` only in a purge of the reaper, and only if
\* its own expires_at is an instant at or before the `now` of that purge: an
\* entry without expiration, or one whose expiration an overwriting SET has
\* moved to a later instant, is not removed.
C35_ReaperRemovesOnlyExpired ==
    [][\A k \in DOMAIN entries :
          k \notin DOMAIN entries'
             => /\ purge_pc = "purging"
                /\ purge_now # None
                /\ entries[k].expires_at # None
                /\ entries[k].expires_at[1] <= purge_now[1]]_vars

\* A purge at instant 1 has removed the entry whose SET made it expire at 1,
\* and is about to remove its pair.
C35_Witness ==
    /\ purge_pc = "untrack"
    /\ purge_now = Some(1)
    /\ k1 \notin DOMAIN entries
    /\ expirations = {<<1, k1>>}
    /\ last_set[k1].when = Some(1)

(***************************************************************************)
(* The shutdown flag of the database.                                      *)
(***************************************************************************)
\* The task of connection h has not ended: it holds the Handler, and with
\* it a clone of shutdown_complete_tx.
HandlerAlive(h) == pc[h] \notin {"none", "gone"}

\* C36: the shutdown flag is set only after server::run has finished
\* draining: while a handler is alive the flag is false and the reaper has
\* not returned, the flag is set only in the state in which run has stopped
\* selecting and no handler is alive, and once true it stays true.
C36_FlagAfterDraining ==
    /\ []((\E h \in Conns : HandlerAlive(h))
             => ~shutdown /\ purge_pc # "done" /\ run_pc \in {"select", "recv"})
    /\ [][/\ shutdown => shutdown'
          /\ ~shutdown /\ shutdown'
                => /\ run_pc = "recv"
                   /\ ~notify_shutdown
                   /\ shutdown_complete_tx = {}
                   /\ \A h \in Conns : ~HandlerAlive(h)]_vars

\* The handler stored a key, returned on the shutdown signal and ended; then
\* the flag was set and the reaper returned.
C36_Witness ==
    /\ shutdown
    /\ purge_pc = "done"
    /\ pc[1] = "gone"
    /\ is_shutdown[1]
    /\ result[1] = "ok"
    /\ k1 \in DOMAIN entries

(***************************************************************************)
(* The handlers and the shutdown broadcast.                                *)
(***************************************************************************)
\* C37: no handler is created after the shutdown broadcast Sender has been
\* dropped.  A handler's task appears only in a step of Listener::run that
\* accepts, taken while the Sender is alive and left alive, and that step
\* leaves the task spawned with the permit and a clone of
\* shutdown_complete_tx; once the Sender is dropped the accept loop no
\* longer runs; and every handler that waits in a select! after the drop can
\* take its shutdown branch.
C37_NoHandlerAfterDrop ==
    /\ [][\A h \in Conns :
             pc[h] = "none" /\ pc'[h] # "none"
                => /\ notify_shutdown /\ notify_shutdown'
                   /\ run_pc = "select"
                   /\ listener_pc = "accept" /\ listener_pc' = "acquire"
                   /\ pc'[h] = "read" /\ ~is_shutdown'[h]
                   /\ h \in permit' /\ h \in shutdown_complete_tx']_vars
    /\ [](~notify_shutdown => listener_pc \in {"dropped", "failed"})
    /\ [](\A h \in Conns :
             ~notify_shutdown /\ (pc[h] = "read" \/ InSelect(h))
                => ENABLED (Run_shutdown(h) \/ Sub_shutdown(h)))

\* Two handlers were spawned before the drop and both returned on the
\* signal; the accept loop was cancelled and the third was never created.
C37_Witness ==
    /\ ~notify_shutdown
    /\ listener_pc = "dropped"
    /\ is_shutdown[1] /\ result[1] = "ok"
    /\ is_shutdown[2] /\ result[2] = "ok"
    /\ pc[3] = "none"

(***************************************************************************)
(* The receivers of a connection.                                          *)
(***************************************************************************)
\* C38 as stated: a connection holds at most one live broadcast receiver per
\* channel name, so that the receiver count of a channel, which is the reply
\* of a PUBLISH, counts each connection once.
C38_OneReceiverPerChannel ==
    \A key \in {ch_a, ch_b} :
       /\ \A h \in Conns : ~(HoldsInMap(h, key) /\ HoldsFresh(h, key))
       /\ receiver_count(key) = Cardinality({h \in Conns : Subscribed(h, key)})

(***************************************************************************)
(* What a subscriber is delivered.                                         *)
(***************************************************************************)
Elems(q) == {q[i] : i \in DOMAIN q}

\* The payloads of channel key that h holds or is writing: in a receiver of
\* its map, in the receiver not yet in the map, in the frame being written.
Held(h, key) ==
    UNION {Elems(subscriptions[h][i].q) :
              i \in {j \in DOMAIN subscriptions[h] : subscriptions[h][j].key = key}}
    \cup (IF HoldsFresh(h, key) THEN Elems(rx[h][1].q) ELSE {})
    \cup (IF /\ out_frame[h] # None
             /\ IsMessageFrame(out_frame[h][1])
             /\ out_frame[h][1].v[2].v = key
          THEN {out_frame[h][1].v[3].v} ELSE {})

\* C39: a subscriber receives only payloads published after its subscription
\* to the channel was registered: every payload of channel c that a
\* connection has been written, is writing or holds in a receiver was
\* published while the connection held a receiver on c, so a payload
\* published before (each PUBLISH has a payload of its own) reaches it never.
C39_OnlyLaterPayloads ==
    \A h \in Conns, key \in {ch_a, ch_b} :
       /\ key \in DOMAIN got[h] => Elems(got[h][key]) \subseteq Elems(sent[h][key])
       /\ Held(h, key) # {} => key \in DOMAIN sent[h] /\ Held(h, key) \subseteq Elems(sent[h][key])

\* The first payload was published to a when a had no subscriber; connection
\* 1 subscribed afterwards and has been written the second payload only.
C39_Witness ==
    /\ pub_seq = 2
    /\ ch_a \in DOMAIN sent[1] /\ ch_a \in DOMAIN got[1]
    /\ sent[1][ch_a] = <<Payload(1)>>
    /\ got[1][ch_a] = <<Payload(1)>>
    /\ sent[2] = EmptyMap

=============================================================================
